---------------------------- MODULE Spec2Model ----------------------------
(***************************************************************************)
(* The local media cache of the Telegram MCP server: the MediaStorage      *)
(* class (telegram_mcp/utils/media_storage.py), the two module-level       *)
(* instances of it (main.py and tools/media_tools.py) and the handlers     *)
(* that feed and read it (telegram_download_media, the tgfile:// resource  *)
(* handler, telegram_list_downloaded_media,                                *)
(* telegram_clear_downloaded_media).                                       *)
(*                                                                         *)
(* Python strings are sequences of one-character strings, so that          *)
(* formatting (f"{chat_id}|{message_id}") and parsing (key.split("|"),     *)
(* int(...), Path.suffix) are computed and not assumed to be inverse.      *)
(* A Python dict is the set of its items [key |-> k, val |-> v]; a JSON    *)
(* object record is a TLA+ record whose DOMAIN is its set of field names.  *)
(* File contents are sequences of bytes.                                   *)
(***************************************************************************)
EXTENDS Integers, Sequences, FiniteSets, TLC

VARIABLES index, files, index_file, now, last, pending, proc

vars == <<index, files, index_file, now, last, pending, proc>>

(***************************************************************************)
(* Bounds of the model.                                                    *)
(***************************************************************************)
\* The clock (datetime.now()) is a counter that ticks at every save_media call, at
\* every operation in which a system call fails and at every corruption of the
\* index file; none of them is taken once it reaches MaxClock.
MaxClock == 2

\* chat ids and message ids the callers use: "1|23" and "12|3" differ only by
\* the place of the separator.
Ids == {<<1, 23>>, <<12, 3>>}

(***************************************************************************)
(* Python built-ins on strings.                                            *)
(***************************************************************************)
\* Text that is only carried around is one chunk (<<"image/jpeg">>); text that is
\* parsed or compared by position is in one-character chunks.
None == <<"<None>">>

DigitChars == <<"0", "1", "2", "3", "4", "5", "6", "7", "8", "9">>

\* str(n) / f"{n}" of an int
RECURSIVE str(_)
str(n) ==
    IF n < 0 THEN <<"-">> \o str(0 - n)
    ELSE IF n < 10 THEN <<DigitChars[n + 1]>>
    ELSE str(n \div 10) \o <<DigitChars[(n % 10) + 1]>>

IsDigit(ch) == \E d \in 1..10 : DigitChars[d] = ch

DigitVal(ch) == (CHOOSE d \in 1..10 : DigitChars[d] = ch) - 1

RECURSIVE DigitsVal(_)
DigitsVal(s) ==
    IF s = <<>> THEN 0
    ELSE 10 * DigitsVal(SubSeq(s, 1, Len(s) - 1)) + DigitVal(s[Len(s)])

\* int(s): [ok |-> TRUE, val |-> n], or ok = FALSE where Python raises ValueError
int(s) ==
    LET neg  == Len(s) > 0 /\ s[1] = "-"
        body == IF neg THEN SubSeq(s, 2, Len(s)) ELSE s
    IN  IF body # <<>> /\ \A i \in 1..Len(body) : IsDigit(body[i])
        THEN [ok |-> TRUE, val |-> IF neg THEN 0 - DigitsVal(body) ELSE DigitsVal(body)]
        ELSE [ok |-> FALSE, val |-> 0]

\* s.split(sep) for a one-character separator: the list of parts
RECURSIVE split(_, _)
split(s, sep) ==
    IF \E i \in 1..Len(s) : s[i] = sep
    THEN LET i == CHOOSE j \in 1..Len(s) : s[j] = sep /\ \A k \in 1..(j - 1) : s[k] # sep
         IN  <<SubSeq(s, 1, i - 1)>> \o split(SubSeq(s, i + 1, Len(s)), sep)
    ELSE <<s>>

\* index of the last occurrence of ch in s, 0 when there is none (str.rfind + 1)
rfind(s, ch) ==
    IF \E i \in 1..Len(s) : s[i] = ch
    THEN CHOOSE i \in 1..Len(s) : s[i] = ch /\ \A k \in (i + 1)..Len(s) : s[k] # ch
    ELSE 0

\* the final path component
basename(p) == SubSeq(p, rfind(p, "/") + 1, Len(p))

\* pathlib's PurePath.suffix: the last ".xxx" of the final component, "" when the
\* component has no dot, starts with its only dot or ends with a dot
suffix(p) ==
    LET name == basename(p)
        i    == rfind(name, ".")
    IN  IF 1 < i /\ i < Len(name) THEN SubSeq(name, i, Len(name)) ELSE <<>>

\* mimetypes.guess_type(path)[0], for the suffixes that occur
guess_type(p) ==
    LET e == suffix(p)
    IN  CASE e = <<".", "j", "p", "g">> -> <<"image/jpeg">>
          [] e = <<".", "p", "n", "g">> -> <<"image/png">>
          [] e = <<".", "p", "d", "f">> -> <<"application/pdf">>
          [] e = <<".", "b", "i", "n">> -> <<"application/octet-stream">>
          [] OTHER -> None

(***************************************************************************)
(* Python dict as the set of its items.                                    *)
(***************************************************************************)
Keys(d) == {e.key : e \in d}

Has(d, k) == \E e \in d : e.key = k

\* d[k] for a key that is present
Get(d, k) == (CHOOSE e \in d : e.key = k).val

\* DictSet that adds the item and keeps the one the key had
DictSet_append(d, k, v) == d \cup {[key |-> k, val |-> v]}

\* d[k] = v
DictSet(d, k, v) == {e \in d : e.key # k} \cup {[key |-> k, val |-> v]}

\* del d[k]
DictDel(d, k) == {e \in d : e.key # k}

(***************************************************************************)
(* The filesystem: a function from the paths that exist to their bytes.    *)
(***************************************************************************)
exists(fs, p) == p \in DOMAIN fs

\* write (create or replace) the file p
WriteFile(fs, p, bytes) == [q \in DOMAIN fs \cup {p} |-> IF q = p THEN bytes ELSE fs[q]]

\* os.remove / os.unlink
RemoveFile(fs, p) == [q \in DOMAIN fs \ {p} |-> fs[q]]


(***************************************************************************)
(* MediaStorage (utils/media_storage.py).  A method is an operator from    *)
(* the instance's index, the filesystem, the index file, the arguments and *)
(* the outcome of the system calls it makes (io) to the new index, files   *)
(* and index file, the return value (ret) and the exception raised (err,   *)
(* "none" for a normal return); writes counts its _save_index calls.       *)
(*                                                                         *)
(* io.copy   : "ok", "fail_open" (shutil.copy2 raises before it touches    *)
(*             the destination) or "fail_partial" (it raises after         *)
(*             io.copied bytes were written)                               *)
(* io.wfail  : the _save_index call of this operation that fails, counted  *)
(*             from 1; 0 when none fails                                   *)
(* io.wmode  : "fail_open" (open(..., 'w') raises, file untouched) or      *)
(*             "fail_write" (the file was truncated and json.dump raised)  *)
(* io.rmfail : the paths for which os.remove raises OSError                *)
(***************************************************************************)
\* Path.home() / ".telegram-mcp" / "media"
base_dir == <<"m">>

Absent == [state |-> "absent", content |-> {}]

\* an index file whose text json.load cannot parse
Corrupt == [state |-> "corrupt", content |-> {}]

\* an index file whose bytes are not UTF-8 text
Undecodable == [state |-> "undecodable", content |-> {}]

Result(idx, fs, idxfile, ret, err, writes) ==
    [index |-> idx, files |-> fs, index_file |-> idxfile,
     ret |-> ret, err |-> err, writes |-> writes]

\* _load_index: the index an instance starts with
_load_index(idxfile) ==
    IF idxfile.state = "ok" THEN idxfile.content ELSE {}

\* the exception that leaves _load_index.  except (json.JSONDecodeError, IOError)
\* catches a text that does not parse and a file that cannot be opened;
\* f.read() of bytes that are not UTF-8 raises UnicodeDecodeError, a ValueError
\* that is neither of the two.
LoadError(idxfile) ==
    IF idxfile.state = "undecodable" THEN "UnicodeDecodeError" ELSE "none"

\* MediaStorage(): the index of the new instance; when the constructor raises
\* there is no new instance and the caller is left with what it had (idx)
__init__(idx, fs, idxfile) ==
    IF LoadError(idxfile) # "none"
    THEN Result(idx, fs, idxfile, None, LoadError(idxfile), 0)
    ELSE Result(_load_index(idxfile), fs, idxfile, None, "none", 0)

\* _save_index that logs the IOError and does not raise it again
_save_index_swallow(idx, idxfile, n, io) ==
    IF io.wfail # n THEN [index_file |-> [state |-> "ok", content |-> idx], err |-> "none"]
    ELSE IF io.wmode = "fail_open" THEN [index_file |-> idxfile, err |-> "none"]
    ELSE [index_file |-> Corrupt, err |-> "none"]

\* _save_index, as the n-th index write of an operation: the new index file and
\* the exception.  json.dump writes the whole dict; its keys are str and its
\* values are dicts of str and int, which json.load gives back as they were.
_save_index(idx, idxfile, n, io) ==
    IF io.wfail # n THEN [index_file |-> [state |-> "ok", content |-> idx], err |-> "none"]
    ELSE IF io.wmode = "fail_open" THEN [index_file |-> idxfile, err |-> "IOError"]
    ELSE [index_file |-> Corrupt, err |-> "IOError"]

_get_key(chat_id, message_id) == str(chat_id) \o <<"|">> \o str(message_id)

\* _get_file_path with nothing between the two numbers
_get_file_path_noSeparator(chat_id, message_id, extension) ==
    base_dir \o <<"/">> \o <<"c", "h", "a", "t">> \o str(chat_id)
             \o str(message_id) \o extension

_get_file_path(chat_id, message_id, extension) ==
    base_dir \o <<"/">> \o <<"c", "h", "a", "t">> \o str(chat_id)
             \o <<"_", "m", "s", "g">> \o str(message_id) \o extension

\* ext_map.get(mime_type, '.bin') of save_media
ext_map(mime_type) ==
    CASE mime_type = <<"image/jpeg">>      -> <<".", "j", "p", "g">>
      [] mime_type = <<"image/png">>       -> <<".", "p", "n", "g">>
      [] mime_type = <<"image/gif">>       -> <<".", "g", "i", "f">>
      [] mime_type = <<"image/webp">>      -> <<".", "w", "e", "b", "p">>
      [] mime_type = <<"video/mp4">>       -> <<".", "m", "p", "4">>
      [] mime_type = <<"audio/mpeg">>      -> <<".", "m", "p", "3">>
      [] mime_type = <<"audio/ogg">>       -> <<".", "o", "g", "g">>
      [] mime_type = <<"application/pdf">> -> <<".", "p", "d", "f">>
      [] OTHER                             -> <<".", "b", "i", "n">>

\* ResolveMime that prefers the type guessed from the file name
ResolveMime_guessFirst(source_path, mime_type) ==
    IF guess_type(source_path) # None THEN guess_type(source_path)
    ELSE IF mime_type # None THEN mime_type
    ELSE <<"application/octet-stream">>

\* lines 92-96: the MIME type save_media records
ResolveMime(source_path, mime_type) ==
    IF mime_type # None THEN mime_type
    ELSE IF guess_type(source_path) # None THEN guess_type(source_path)
    ELSE <<"application/octet-stream">>

\* ResolveExtension that looks the MIME type up before it looks at the file name
ResolveExtension_tableFirst(source_path, mime) ==
    IF ext_map(mime) # <<".", "b", "i", "n">> THEN ext_map(mime)
    ELSE IF suffix(source_path) # <<>> THEN suffix(source_path)
    ELSE <<".", "b", "i", "n">>

\* lines 98-112: the extension save_media records
ResolveExtension(source_path, mime) ==
    IF suffix(source_path) # <<>> THEN suffix(source_path) ELSE ext_map(mime)

\* save_media that removes the file of the entry it replaces when the path changes
save_media_removeOld(idx, fs, idxfile, chat_id, message_id, source_path, mime_type, ts, io) ==
    LET mime      == ResolveMime(source_path, mime_type)
        extension == ResolveExtension(source_path, mime)
        dest_path == _get_file_path(chat_id, message_id, extension)
        copied    == IF io.copy = "ok" THEN fs[source_path]
                     ELSE SubSeq(fs[source_path], 1, io.copied)
        fs2       == WriteFile(fs, dest_path, copied)
        key       == _get_key(chat_id, message_id)
        fs3       == IF Has(idx, key) /\ Get(idx, key).path # dest_path
                        /\ exists(fs2, Get(idx, key).path)
                     THEN RemoveFile(fs2, Get(idx, key).path) ELSE fs2
        idx2      == DictSet(idx, key,
                        [path |-> dest_path, mime_type |-> mime, timestamp |-> ts,
                         size |-> Len(copied), extension |-> extension])
        sv        == _save_index(idx2, idxfile, 1, io)
    IN  IF ~exists(fs, source_path)
        THEN Result(idx, fs, idxfile, None, "FileNotFoundError", 0)
        ELSE IF source_path = dest_path
        THEN Result(idx, fs, idxfile, None, "SameFileError", 0)
        ELSE IF io.copy = "fail_open"
        THEN Result(idx, fs, idxfile, None, "IOError", 0)
        ELSE IF io.copy = "fail_partial"
        THEN Result(idx, fs2, idxfile, None, "IOError", 0)
        ELSE Result(idx2, fs3, sv.index_file,
                    IF sv.err = "none" THEN dest_path ELSE None, sv.err, 1)

\* save_media that writes the index file before it updates the index
save_media_persistFirst(idx, fs, idxfile, chat_id, message_id, source_path, mime_type, ts, io) ==
    LET mime      == ResolveMime(source_path, mime_type)
        extension == ResolveExtension(source_path, mime)
        dest_path == _get_file_path(chat_id, message_id, extension)
        copied    == IF io.copy = "ok" THEN fs[source_path]
                     ELSE SubSeq(fs[source_path], 1, io.copied)
        fs2       == WriteFile(fs, dest_path, copied)
        key       == _get_key(chat_id, message_id)
        idx2      == DictSet(idx, key,
                        [path |-> dest_path, mime_type |-> mime, timestamp |-> ts,
                         size |-> Len(copied), extension |-> extension])
        sv        == _save_index(idx, idxfile, 1, io)
    IN  IF ~exists(fs, source_path)
        THEN Result(idx, fs, idxfile, None, "FileNotFoundError", 0)
        ELSE IF source_path = dest_path
        THEN Result(idx, fs, idxfile, None, "SameFileError", 0)
        ELSE IF io.copy = "fail_open"
        THEN Result(idx, fs, idxfile, None, "IOError", 0)
        ELSE IF io.copy = "fail_partial"
        THEN Result(idx, fs2, idxfile, None, "IOError", 0)
        ELSE Result(idx2, fs2, sv.index_file,
                    IF sv.err = "none" THEN dest_path ELSE None, sv.err, 1)

\* save_media that opens the destination before it looks at the source
save_media_destFirst(idx, fs, idxfile, chat_id, message_id, source_path, mime_type, ts, io) ==
    LET mime      == ResolveMime(source_path, mime_type)
        extension == ResolveExtension(source_path, mime)
        dest_path == _get_file_path(chat_id, message_id, extension)
        copied    == IF io.copy = "ok" THEN fs[source_path]
                     ELSE SubSeq(fs[source_path], 1, io.copied)
        fs2       == WriteFile(fs, dest_path, copied)
        key       == _get_key(chat_id, message_id)
        idx2      == DictSet(idx, key,
                        [path |-> dest_path, mime_type |-> mime, timestamp |-> ts,
                         size |-> Len(copied), extension |-> extension])
        sv        == _save_index(idx2, idxfile, 1, io)
    IN  IF ~exists(fs, source_path)
        THEN Result(idx, WriteFile(fs, dest_path, <<>>), idxfile, None, "FileNotFoundError", 0)
        ELSE IF source_path = dest_path
        THEN Result(idx, fs, idxfile, None, "SameFileError", 0)
        ELSE IF io.copy = "fail_open"
        THEN Result(idx, fs, idxfile, None, "IOError", 0)
        ELSE IF io.copy = "fail_partial"
        THEN Result(idx, fs2, idxfile, None, "IOError", 0)
        ELSE Result(idx2, fs2, sv.index_file,
                    IF sv.err = "none" THEN dest_path ELSE None, sv.err, 1)

save_media(idx, fs, idxfile, chat_id, message_id, source_path, mime_type, ts, io) ==
    LET mime      == ResolveMime(source_path, mime_type)
        extension == ResolveExtension(source_path, mime)
        dest_path == _get_file_path(chat_id, message_id, extension)
        copied    == IF io.copy = "ok" THEN fs[source_path]
                     ELSE SubSeq(fs[source_path], 1, io.copied)
        fs2       == WriteFile(fs, dest_path, copied)
        key       == _get_key(chat_id, message_id)
        idx2      == DictSet(idx, key,
                        [path |-> dest_path, mime_type |-> mime, timestamp |-> ts,
                         size |-> Len(copied), extension |-> extension])
        sv        == _save_index(idx2, idxfile, 1, io)
    IN  IF ~exists(fs, source_path)
        THEN Result(idx, fs, idxfile, None, "FileNotFoundError", 0)
        ELSE IF source_path = dest_path
        THEN Result(idx, fs, idxfile, None, "SameFileError", 0)
        ELSE IF io.copy = "fail_open"
        THEN Result(idx, fs, idxfile, None, "IOError", 0)
        ELSE IF io.copy = "fail_partial"
        THEN Result(idx, fs2, idxfile, None, "IOError", 0)
        ELSE Result(idx2, fs2, sv.index_file,
                    IF sv.err = "none" THEN dest_path ELSE None, sv.err, 1)

\* Optional[Dict]: the set holding the record, empty for None
get_media(idx, chat_id, message_id) ==
    LET key == _get_key(chat_id, message_id)
    IN  IF Has(idx, key) THEN {Get(idx, key)} ELSE {}

\* get_media_path without the os.path.exists test
get_media_path_noExistsTest(idx, fs, chat_id, message_id) ==
    {mi.path : mi \in get_media(idx, chat_id, message_id)}

\* Optional[str]: the set holding the path, empty for None
get_media_path(idx, fs, chat_id, message_id) ==
    LET media_info == get_media(idx, chat_id, message_id)
    IN  {mi.path : mi \in {x \in media_info : exists(fs, x.path)}}

\* get_media that also looks for the file, and forgets a record without one
get_media_call_prune(idx, fs, idxfile, chat_id, message_id) ==
    LET found == {x \in get_media(idx, chat_id, message_id) : exists(fs, x.path)}
    IN  Result(IF found = {} THEN DictDel(idx, _get_key(chat_id, message_id)) ELSE idx,
               fs, idxfile, found, "none", 0)

\* a call of get_media: what it returns and the state it leaves (it reads
\* self.index and nothing else)
get_media_call(idx, fs, idxfile, chat_id, message_id) ==
    Result(idx, fs, idxfile, get_media(idx, chat_id, message_id), "none", 0)

\* a call of get_media_path: what it returns and the state it leaves (it reads
\* self.index and asks os.path.exists)
get_media_path_call(idx, fs, idxfile, chat_id, message_id) ==
    Result(idx, fs, idxfile, get_media_path(idx, fs, chat_id, message_id), "none", 0)

\* chat_id, message_id = key.split("|"); int(chat_id); int(message_id)
KeyParses(key) ==
    LET parts == split(key, "|")
    IN  Len(parts) = 2 /\ int(parts[1]).ok /\ int(parts[2]).ok

\* lines 181-183: media_info["chat_id"] = ...; media_info["message_id"] = ...
\* (media_info is the dict held by the index, which is changed in place)
Annotate(key, media_info) ==
    LET parts == split(key, "|")
    IN  [chat_id |-> int(parts[1]).val, message_id |-> int(parts[2]).val] @@ media_info

\* list_media that writes the index file once per stale key
list_media_savePerKey(idx, fs, idxfile, io) ==
    LET valid      == {e \in idx : exists(fs, e.val.path)}
        stale_keys == {e.key : e \in idx \ valid}
        marked     == {[key |-> e.key, val |-> Annotate(e.key, e.val)] : e \in valid}
        sv         == _save_index(marked, idxfile, 1, io)
    IN  IF \E e \in valid : ~KeyParses(e.key)
        THEN Result(idx, fs, idxfile, {}, "ValueError", 0)
        ELSE IF stale_keys = {}
        THEN Result(marked, fs, idxfile, {e.val : e \in marked}, "none", 0)
        ELSE Result(marked, fs, sv.index_file,
                    IF sv.err = "none" THEN {e.val : e \in marked} ELSE {}, sv.err,
                    Cardinality(stale_keys))

\* list_media that leaves the stale entries in the index
list_media_keepStale(idx, fs, idxfile, io) ==
    LET valid      == {e \in idx : exists(fs, e.val.path)}
        marked     == {[key |-> e.key, val |-> Annotate(e.key, e.val)] : e \in valid}
    IN  IF \E e \in valid : ~KeyParses(e.key)
        THEN Result(idx, fs, idxfile, {}, "ValueError", 0)
        ELSE Result(marked \cup (idx \ valid), fs, idxfile, {e.val : e \in marked}, "none", 0)

\* The returned list is given as the set of its records (its order is the
\* dict's insertion order, which the model does not keep).  A key that does not
\* parse raises ValueError out of the loop; the index is then left as it was.
list_media(idx, fs, idxfile, io) ==
    LET valid      == {e \in idx : exists(fs, e.val.path)}
        stale_keys == {e.key : e \in idx \ valid}
        marked     == {[key |-> e.key, val |-> Annotate(e.key, e.val)] : e \in valid}
        sv         == _save_index(marked, idxfile, 1, io)
    IN  IF \E e \in valid : ~KeyParses(e.key)
        THEN Result(idx, fs, idxfile, {}, "ValueError", 0)
        ELSE IF stale_keys = {}
        THEN Result(marked, fs, idxfile, {e.val : e \in marked}, "none", 0)
        ELSE Result(marked, fs, sv.index_file,
                    IF sv.err = "none" THEN {e.val : e \in marked} ELSE {}, sv.err, 1)

\* delete_media without the try/except around os.remove
delete_media_raiseOSError(idx, fs, idxfile, chat_id, message_id, io) ==
    LET key       == _get_key(chat_id, message_id)
        file_path == Get(idx, key).path
        idx2      == DictDel(idx, key)
        sv        == _save_index(idx2, idxfile, 1, io)
    IN  IF ~Has(idx, key)
        THEN Result(idx, fs, idxfile, FALSE, "none", 0)
        ELSE IF exists(fs, file_path) /\ file_path \in io.rmfail
        THEN Result(idx, fs, idxfile, FALSE, "OSError", 0)
        ELSE Result(idx2, IF exists(fs, file_path) THEN RemoveFile(fs, file_path) ELSE fs,
                    sv.index_file, sv.err = "none", sv.err, 1)

\* delete_media that removes the file and leaves the entry in the index
delete_media_keepEntry(idx, fs, idxfile, chat_id, message_id, io) ==
    LET key       == _get_key(chat_id, message_id)
        file_path == Get(idx, key).path
        fs2       == IF exists(fs, file_path) /\ file_path \notin io.rmfail
                     THEN RemoveFile(fs, file_path) ELSE fs
        sv        == _save_index(idx, idxfile, 1, io)
    IN  IF ~Has(idx, key)
        THEN Result(idx, fs, idxfile, FALSE, "none", 0)
        ELSE Result(idx, fs2, sv.index_file, sv.err = "none", sv.err, 1)

delete_media(idx, fs, idxfile, chat_id, message_id, io) ==
    LET key       == _get_key(chat_id, message_id)
        file_path == Get(idx, key).path
        fs2       == IF exists(fs, file_path) /\ file_path \notin io.rmfail
                     THEN RemoveFile(fs, file_path) ELSE fs
        idx2      == DictDel(idx, key)
        sv        == _save_index(idx2, idxfile, 1, io)
    IN  IF ~Has(idx, key)
        THEN Result(idx, fs, idxfile, FALSE, "none", 0)
        ELSE Result(idx2, fs2, sv.index_file, sv.err = "none", sv.err, 1)

\* clear_all_media that counts the records it drops, not the files it removes
clear_all_media_countRecords(idx, fs, idxfile, io) ==
    LET removed == {e.val.path : e \in {x \in idx : exists(fs, x.val.path)
                                                    /\ x.val.path \notin io.rmfail}}
        fs2     == [q \in DOMAIN fs \ removed |-> fs[q]]
        sv      == _save_index({}, idxfile, 1, io)
    IN  Result({}, fs2, sv.index_file,
               IF sv.err = "none" THEN Cardinality(idx) ELSE 0, sv.err, 1)

clear_all_media(idx, fs, idxfile, io) ==
    LET removed == {e.val.path : e \in {x \in idx : exists(fs, x.val.path)
                                                    /\ x.val.path \notin io.rmfail}}
        fs2     == [q \in DOMAIN fs \ removed |-> fs[q]]
        \* deleted_count += 1 once per index value whose file was removed
        deleted_count == Cardinality({e \in idx : e.val.path \in removed})
        sv      == _save_index({}, idxfile, 1, io)
    IN  Result({}, fs2, sv.index_file,
               IF sv.err = "none" THEN deleted_count ELSE 0, sv.err, 1)

RECURSIVE SumSizes(_)
SumSizes(recs) ==
    IF recs = {} THEN 0
    ELSE LET r == CHOOSE x \in recs : TRUE IN r.size + SumSizes(recs \ {r})

\* get_storage_stats that counts the entries of the index
get_storage_stats_countIndex(idx, fs, idxfile, io) ==
    LET l == list_media(idx, fs, idxfile, io)
    IN  Result(l.index, l.files, l.index_file,
               IF l.err = "none"
               THEN [total_files |-> Cardinality(idx),
                     total_size_bytes |-> SumSizes({e.val : e \in idx}),
                     storage_path |-> base_dir]
               ELSE [total_files |-> 0, total_size_bytes |-> 0, storage_path |-> <<>>],
               l.err, l.writes)

\* total_size_mb (a rounded float) is not modelled
get_storage_stats(idx, fs, idxfile, io) ==
    LET l == list_media(idx, fs, idxfile, io)
    IN  Result(l.index, l.files, l.index_file,
               IF l.err = "none"
               THEN [total_files |-> Cardinality(l.ret),
                     total_size_bytes |-> SumSizes(l.ret),
                     storage_path |-> base_dir]
               ELSE [total_files |-> 0, total_size_bytes |-> 0, storage_path |-> <<>>],
               l.err, l.writes)

(***************************************************************************)
(* The handlers of the server.  Each has its own MediaStorage instance:    *)
(* main.py line 27 creates the one the resource handler reads,             *)
(* tools/media_tools.py line 28 the one the tools use.                      *)
(***************************************************************************)
\* io of the rest of an operation after k of its index writes were made
Shift(io, k) == [io EXCEPT !.wfail = IF io.wfail > k THEN io.wfail - k ELSE 0]

\* base64.b64encode(bytes): the sequence of alphabet positions 0..63, 64 for "="
RECURSIVE b64encode(_)
b64encode(b) ==
    IF b = <<>> THEN <<>>
    ELSE LET n  == IF Len(b) >= 3 THEN 3 ELSE Len(b)
             v  == b[1] * 65536 + (IF n >= 2 THEN b[2] ELSE 0) * 256
                   + (IF n >= 3 THEN b[3] ELSE 0)
         IN  <<v \div 262144, (v \div 4096) % 64,
               IF n >= 2 THEN (v \div 64) % 64 ELSE 64,
               IF n >= 3 THEN v % 64 ELSE 64>>
             \o b64encode(SubSeq(b, n + 1, Len(b)))

\* raise ValueError(f"Failed to serve media resource: {e}")
ResourceError(e) ==
    [ok |-> FALSE, uri |-> <<>>, blob |-> <<>>, mimeType |-> <<>>,
     error |-> <<"Failed to serve media resource: ">> \o e]

\* the tgfile://{chat_id}/{message_id} resource; chat_id and message_id are the
\* strings of the address
get_telegram_media(idx, fs, chat_id, message_id) ==
    LET chat_id_int    == int(chat_id)
        message_id_int == int(message_id)
        media_info     == get_media(idx, chat_id_int.val, message_id_int.val)
        info           == CHOOSE x \in media_info : TRUE
    IN  IF ~chat_id_int.ok \/ ~message_id_int.ok
        THEN ResourceError(<<"invalid literal for int() with base 10">>)
        ELSE IF media_info = {}
        THEN ResourceError(<<"Media not found: ">> \o chat_id \o <<"/">> \o message_id
                           \o <<". Download it first.">>)
        ELSE IF ~exists(fs, info.path)
        THEN ResourceError(<<"Media file not found at ">> \o info.path)
        ELSE [ok |-> TRUE,
              uri |-> <<"t", "g", "f", "i", "l", "e", ":", "/", "/">>
                      \o chat_id \o <<"/">> \o message_id,
              blob |-> b64encode(fs[info.path]),
              mimeType |-> info.mime_type,
              error |-> <<>>]

\* a read of the resource that drops the record of a file it does not find
read_resource_dropMissing(idx, fs, idxfile, chat_id, message_id) ==
    LET r    == get_telegram_media(idx, fs, chat_id, message_id)
        c    == int(chat_id)
        m    == int(message_id)
        gone == c.ok /\ m.ok /\ get_media(idx, c.val, m.val) # {}
                /\ get_media_path(idx, fs, c.val, m.val) = {}
    IN  IF gone THEN Result(DictDel(idx, _get_key(c.val, m.val)), fs, idxfile, r, "none", 0)
        ELSE Result(idx, fs, idxfile, r, "none", 0)

\* a read of the resource: what the handler returns or raises and the state it
\* leaves (it calls get_media, os.path.exists and open(file_path, 'rb'))
read_resource(idx, fs, idxfile, chat_id, message_id) ==
    Result(idx, fs, idxfile, get_telegram_media(idx, fs, chat_id, message_id), "none", 0)

\* log_and_format_error: the string a tool returns when an exception reached it
ToolError == [ok |-> FALSE, text |-> <<"An error occurred">>]

\* os.path.splitext(name)[1]
splitext_ext(name) ==
    LET i == rfind(name, ".")
    IN  IF i > 0 /\ \E k \in 1..(i - 1) : name[k] # "." THEN SubSeq(name, i, Len(name))
        ELSE <<>>

\* ext_map.get(mime_type, '.bin') of telegram_download_media
download_ext_map(mime_type) ==
    CASE mime_type = <<"video/avi">>  -> <<".", "a", "v", "i">>
      [] mime_type = <<"video/mov">>  -> <<".", "m", "o", "v">>
      [] mime_type = <<"text/plain">> -> <<".", "t", "x", "t">>
      [] OTHER                        -> ext_map(mime_type)

\* lines 84-115: the MIME type handed to save_media for the message's media
DownloadMime(msg) ==
    CASE msg.media = "photo"    -> <<"image/jpeg">>
      [] msg.media = "document" -> IF msg.mime_type \in {None, <<>>}
                                   THEN <<"application/octet-stream">> ELSE msg.mime_type
      [] OTHER                  -> None

\* lines 84-119: the suffix of the temporary file
DownloadSuffix(msg) ==
    LET extension ==
            CASE msg.media = "photo"    -> <<".", "j", "p", "g">>
              [] msg.media = "document" ->
                    IF msg.file_name # <<>> /\ splitext_ext(msg.file_name) # <<>>
                    THEN splitext_ext(msg.file_name)
                    ELSE download_ext_map(DownloadMime(msg))
              [] OTHER                  -> <<>>
    IN  IF extension # <<>> THEN extension ELSE <<".", "b", "i", "n">>

\* tempfile.NamedTemporaryFile(delete=False, suffix=suffix).name
TempPath(sfx) == <<"t", "/", "t", "m", "p">> \o sfx

\* telegram_download_media that unlinks the temporary file after the save, not in
\* a finally block
telegram_download_media_noFinally(idx, fs, idxfile, chat_id, message_id, file_path, msg, ts, io) ==
    LET resource_uri == <<"t", "g", "f", "i", "l", "e", ":", "/", "/">>
                        \o str(chat_id) \o <<"/">> \o str(message_id)
        mime_type == DownloadMime(msg)
        temp_path == TempPath(DownloadSuffix(msg))
        fs1       == WriteFile(fs, temp_path, <<>>)
        \* a media that is neither photo nor document downloads nothing
        fs2       == IF msg.media \in {"photo", "document"}
                     THEN WriteFile(fs1, temp_path, msg.bytes) ELSE fs1
        sv        == save_media(idx, fs2, idxfile, chat_id, message_id, temp_path,
                                mime_type, ts, io)
        \* the file_path branch: client.download_media(msg, file=file_path)
        fsF       == IF msg.media \in {"photo", "document"}
                     THEN WriteFile(fs, file_path, msg.bytes) ELSE fs
    IN  IF msg.media = "none"
        THEN Result(idx, fs, idxfile,
                    [ok |-> FALSE, text |-> <<"No media found in the specified message.">>],
                    "none", 0)
        ELSE IF file_path # None
        THEN IF io.download = "fail"
             THEN Result(idx, fs, idxfile, ToolError, "none", 0)
             ELSE IF ~exists(fsF, file_path)
             THEN Result(idx, fsF, idxfile,
                         [ok |-> FALSE, text |-> <<"Download failed: file not created">>],
                         "none", 0)
             ELSE Result(idx, fsF, idxfile,
                         [ok |-> TRUE, path |-> file_path, size |-> Len(fsF[file_path]),
                          mime_type |-> None, resource_uri |-> resource_uri],
                         "none", 0)
        ELSE IF io.download = "fail"
        THEN Result(idx, fs1, idxfile, ToolError, "none", 0)
        ELSE IF sv.err # "none"
        THEN Result(sv.index, sv.files, sv.index_file, ToolError, "none", sv.writes)
        ELSE Result(sv.index, RemoveFile(sv.files, temp_path), sv.index_file,
                    [ok |-> TRUE, mime_type |-> mime_type, file |-> basename(sv.ret),
                     size |-> Len(sv.files[sv.ret]), path |-> sv.ret,
                     resource_uri |-> resource_uri],
                    "none", sv.writes)

\* telegram_download_media.  msg is the message the client returns (media "none"
\* when it has no media); file_path is None for the storage branch; io.download
\* is "ok" or "fail" (client.download_media raises).
telegram_download_media(idx, fs, idxfile, chat_id, message_id, file_path, msg, ts, io) ==
    LET resource_uri == <<"t", "g", "f", "i", "l", "e", ":", "/", "/">>
                        \o str(chat_id) \o <<"/">> \o str(message_id)
        mime_type == DownloadMime(msg)
        temp_path == TempPath(DownloadSuffix(msg))
        fs1       == WriteFile(fs, temp_path, <<>>)
        \* a media that is neither photo nor document downloads nothing
        fs2       == IF msg.media \in {"photo", "document"}
                     THEN WriteFile(fs1, temp_path, msg.bytes) ELSE fs1
        sv        == save_media(idx, fs2, idxfile, chat_id, message_id, temp_path,
                                mime_type, ts, io)
        \* the file_path branch: client.download_media(msg, file=file_path)
        fsF       == IF msg.media \in {"photo", "document"}
                     THEN WriteFile(fs, file_path, msg.bytes) ELSE fs
    IN  IF msg.media = "none"
        THEN Result(idx, fs, idxfile,
                    [ok |-> FALSE, text |-> <<"No media found in the specified message.">>],
                    "none", 0)
        ELSE IF file_path # None
        THEN IF io.download = "fail"
             THEN Result(idx, fs, idxfile, ToolError, "none", 0)
             ELSE IF ~exists(fsF, file_path)
             THEN Result(idx, fsF, idxfile,
                         [ok |-> FALSE, text |-> <<"Download failed: file not created">>],
                         "none", 0)
             ELSE Result(idx, fsF, idxfile,
                         [ok |-> TRUE, path |-> file_path, size |-> Len(fsF[file_path]),
                          mime_type |-> None, resource_uri |-> resource_uri],
                         "none", 0)
        ELSE IF io.download = "fail"
        THEN Result(idx, RemoveFile(fs1, temp_path), idxfile, ToolError, "none", 0)
        ELSE IF sv.err # "none"
        THEN Result(sv.index, RemoveFile(sv.files, temp_path), sv.index_file,
                    ToolError, "none", sv.writes)
        ELSE Result(sv.index, RemoveFile(sv.files, temp_path), sv.index_file,
                    [ok |-> TRUE, mime_type |-> mime_type, file |-> basename(sv.ret),
                     size |-> Len(sv.files[sv.ret]), path |-> sv.ret,
                     resource_uri |-> resource_uri],
                    "none", sv.writes)

\* the item telegram_list_downloaded_media reports for a listed record
ListedItem(media) ==
    [chat_id |-> media.chat_id, message_id |-> media.message_id,
     file |-> basename(media.path), mime_type |-> media.mime_type,
     size |-> media.size, path |-> media.path, timestamp |-> media.timestamp]

telegram_list_downloaded_media(idx, fs, idxfile, io) ==
    LET l  == list_media(idx, fs, idxfile, io)
        st == get_storage_stats(l.index, l.files, l.index_file, Shift(io, l.writes))
    IN  IF l.err # "none"
        THEN Result(l.index, l.files, l.index_file, ToolError, "none", l.writes)
        ELSE IF st.err # "none"
        THEN Result(st.index, st.files, st.index_file, ToolError, "none",
                    l.writes + st.writes)
        ELSE Result(st.index, st.files, st.index_file,
                    [ok |-> TRUE, items |-> {ListedItem(m) : m \in l.ret}, stats |-> st.ret],
                    "none", l.writes + st.writes)

\* lines 341-344: the loop over media_list, in the list's order; state is the
\* Result so far, whose ret is cleared_count
RECURSIVE ClearChatLoop(_, _, _, _)
ClearChatLoop(state, media_list, chat_id, io) ==
    IF media_list = <<>> \/ state.err # "none" THEN state
    ELSE LET media == Head(media_list)
             d     == delete_media(state.index, state.files, state.index_file,
                                   media.chat_id, media.message_id,
                                   Shift(io, state.writes))
         IN  IF media.chat_id # chat_id
             THEN ClearChatLoop(state, Tail(media_list), chat_id, io)
             ELSE ClearChatLoop(
                     Result(d.index, d.files, d.index_file,
                            IF d.err = "none" THEN state.ret + 1 ELSE state.ret,
                            d.err, state.writes + d.writes),
                     Tail(media_list), chat_id, io)

\* the records of the set recs in the order the sequence of ids gives
RECURSIVE InOrder(_, _)
InOrder(recs, order) ==
    IF order = <<>> THEN <<>>
    ELSE LET here == {r \in recs : <<r.chat_id, r.message_id>> = Head(order)}
         IN  (IF here = {} THEN <<>> ELSE <<CHOOSE r \in here : TRUE>>)
             \o InOrder(recs, Tail(order))

\* telegram_clear_downloaded_media whose loop does not compare the chat ids
telegram_clear_downloaded_media_anyChat(idx, fs, idxfile, chat_id, message_id, order, io) ==
    LET c  == CHOOSE x \in chat_id : TRUE
        m  == CHOOSE x \in message_id : TRUE
        d  == delete_media(idx, fs, idxfile, c, m, io)
        ca == clear_all_media(idx, fs, idxfile, io)
    IN  IF chat_id # {} /\ message_id # {}
        THEN Result(d.index, d.files, d.index_file,
                    IF d.err # "none" THEN ToolError
                    ELSE [ok |-> d.ret, chat_id |-> c, message_id |-> m],
                    "none", d.writes)
        ELSE IF chat_id # {}
        THEN Result(ca.index, ca.files, ca.index_file,
                    IF ca.err # "none" THEN ToolError
                    ELSE [ok |-> TRUE, chat_id |-> c, count |-> ca.ret],
                    "none", ca.writes)
        ELSE Result(ca.index, ca.files, ca.index_file,
                    IF ca.err # "none" THEN ToolError
                    ELSE [ok |-> TRUE, count |-> ca.ret],
                    "none", ca.writes)

\* telegram_clear_downloaded_media.  chat_id and message_id are Optional[int]: the
\* set holding the number, empty for None.  order is the order in which the
\* index lists its entries.
telegram_clear_downloaded_media(idx, fs, idxfile, chat_id, message_id, order, io) ==
    LET c  == CHOOSE x \in chat_id : TRUE
        m  == CHOOSE x \in message_id : TRUE
        d  == delete_media(idx, fs, idxfile, c, m, io)
        l  == list_media(idx, fs, idxfile, io)
        lp == ClearChatLoop(Result(l.index, l.files, l.index_file, 0, "none", l.writes),
                            InOrder(l.ret, order), c, io)
        ca == clear_all_media(idx, fs, idxfile, io)
    IN  IF chat_id # {} /\ message_id # {}
        THEN Result(d.index, d.files, d.index_file,
                    IF d.err # "none" THEN ToolError
                    ELSE [ok |-> d.ret, chat_id |-> c, message_id |-> m],
                    "none", d.writes)
        ELSE IF chat_id # {}
        THEN IF l.err # "none"
             THEN Result(l.index, l.files, l.index_file, ToolError, "none", l.writes)
             ELSE Result(lp.index, lp.files, lp.index_file,
                         IF lp.err # "none" THEN ToolError
                         ELSE [ok |-> TRUE, chat_id |-> c, count |-> lp.ret],
                         "none", lp.writes)
        ELSE Result(ca.index, ca.files, ca.index_file,
                    IF ca.err # "none" THEN ToolError
                    ELSE [ok |-> TRUE, count |-> ca.ret],
                    "none", ca.writes)

(***************************************************************************)
(* The inputs the operations are called with.                              *)
(***************************************************************************)
Instances == {"main", "tools"}

SrcJpg == <<"s", "/", "a", ".", "j", "p", "g">>

SrcBare == <<"s", "/", "b">>

SrcMissing == <<"s", "/", "z", ".", "p", "n", "g">>

\* the (source_path, mime_type) pairs save_media is called with: the MIME type
\* inferred, the supplied one beside an inferable one, the extension taken from
\* the MIME type, and a source that does not exist
SaveInputs ==
    { <<SrcJpg, None>>, <<SrcJpg, <<"image/png">> >>, <<SrcBare, <<"image/png">> >>,
      <<SrcMissing, <<"image/png">> >> }

Messages ==
    { [media |-> "none", mime_type |-> None, file_name |-> <<>>, bytes |-> <<>>],
      [media |-> "photo", mime_type |-> None, file_name |-> <<>>, bytes |-> <<1, 2, 3>>],
      [media |-> "document", mime_type |-> <<"image/png">>, file_name |-> <<>>,
       bytes |-> <<9>>] }

\* every system call succeeds
NoFail ==
    [copy |-> "ok", copied |-> 0, wfail |-> 0, wmode |-> "fail_open", rmfail |-> {},
     download |-> "ok"]

\* one of the first n index writes fails
WriteFails(n) ==
    {[NoFail EXCEPT !.wfail = k, !.wmode = w] :
        k \in 1..n, w \in {"fail_open", "fail_write"}}

\* the copy fails, before or after it wrote the first io.copied bytes
CopyFails ==
    {[NoFail EXCEPT !.copy = "fail_open"]}
    \cup {[NoFail EXCEPT !.copy = "fail_partial", !.copied = n] : n \in {0}}

\* os.remove fails for some of the files it is called on
RemoveFails(paths) ==
    {[NoFail EXCEPT !.rmfail = ps] : ps \in SUBSET paths \ {{}}}

\* the files of the entries es that exist, which delete_media and clear_all_media
\* call os.remove on
Removable(es, fs) == {e.val.path : e \in {x \in es : exists(fs, x.val.path)}}

DownloadFails == {[NoFail EXCEPT !.download = "fail"]}

\* the orders in which an index can list the entries of ids
OrdersOf(ids) ==
    {o \in [1..Cardinality(ids) -> ids] : \A i, j \in DOMAIN o : o[i] = o[j] => i = j}

\* the calls of telegram_clear_downloaded_media on ids: everything, one chat
\* (where the order of the list matters), one key
ClearCallsOf(ids) ==
    {[chat_id |-> {}, message_id |-> {}, order |-> CHOOSE o \in OrdersOf(ids) : TRUE]}
    \cup {[chat_id |-> {id[1]}, message_id |-> {}, order |-> o] :
            id \in ids, o \in OrdersOf(ids)}
    \cup {[chat_id |-> {id[1]}, message_id |-> {id[2]},
           order |-> CHOOSE o \in OrdersOf(ids) : TRUE] : id \in ids}

Orders == OrdersOf(Ids)

ClearCalls == ClearCallsOf(Ids)

\* the ids of the clearing scenario: two messages of chat 1 and one of chat 12
ClearIds == Ids \cup {<<1, 3>>}

\* a message that carries a photo
Photo == [media |-> "photo", mime_type |-> None, file_name |-> <<>>, bytes |-> <<1, 2, 3>>]

\* the addresses read: those of the ids, and one that is no number
Addresses == {<<str(id[1]), str(id[2])>> : id \in Ids} \cup {<< <<"x">>, <<"3">> >>}

(***************************************************************************)
(* The state machine.                                                      *)
(***************************************************************************)
\* the keys of idx whose file is missing
StaleKeys(idx, fs) == {e.key : e \in {x \in idx : ~exists(fs, x.val.path)}}

\* what the operation found: the keys of the instance's index and the stale ones
Pre(i) == [keys |-> Keys(index[i]), stale |-> StaleKeys(index[i], files)]

\* the operation just run: its name, instance, arguments, what it found and its
\* outcome
Done(i, op, arg, ret, err, writes) ==
    /\ last' = [op |-> op, inst |-> i, arg |-> arg, pre |-> Pre(i),
                ret |-> ret, err |-> err, writes |-> writes]
    /\ pending' = pending
    /\ proc' = proc

\* The outcomes of the system calls of an operation: all succeed, or, while the
\* clock allows, one of the failures fs of the calls the operation makes.
Faults(fs) == IF now < MaxClock THEN {NoFail} \cup fs ELSE {NoFail}

\* instance i ran operation op with arguments arg and outcome r
Apply(i, op, arg, r) ==
    /\ index' = [index EXCEPT ![i] = r.index]
    /\ files' = r.files
    /\ index_file' = r.index_file
    /\ now' = IF arg.io = NoFail /\ op \notin {"save_media", "telegram_download_media"}
              THEN now ELSE now + 1
    /\ Done(i, op, arg, r.ret, r.err, r.writes)

\* A save_media call in progress is [stage, chat_id, message_id, source_path,
\* mime_type, mime, extension, dest_path, raced]; an instance that is in no call
\* has <<>>.
Idle == <<>>

NoCalls == [i \in Instances |-> Idle]

\* The server process (main.py 185-243): pc is where main() is, requested is the
\* module's _shutdown_requested, event is whether _shutdown_event is set,
\* connected is client.is_connected(), served is whether mcp.run_stdio_async
\* was called, signals are the signals handled so far, early is whether one of
\* them was handled while client.start() was in progress.  Launched is the
\* process at "await client.start()", the handlers registered.
Launched ==
    [pc |-> "client.start", requested |-> FALSE, event |-> FALSE, connected |-> FALSE,
     served |-> FALSE, signals |-> <<>>, early |-> FALSE]

\* both modules are imported on an empty base directory
Init ==
    /\ index = [i \in Instances |-> _load_index(Absent)]
    /\ index_file = Absent
    /\ files = (SrcJpg :> <<1, 2, 3>>) @@ (SrcBare :> <<9>>)
    /\ now = 0
    /\ pending = NoCalls
    /\ proc = Launched
    /\ last = [op |-> "init", inst |-> "main", arg |-> <<>>,
               pre |-> [keys |-> {}, stale |-> {}],
               ret |-> <<>>, err |-> "none", writes |-> 0]

SaveMedia(i) ==
    \E id \in Ids, inp \in SaveInputs :
    \E io \in Faults(IF exists(files, inp[1]) THEN WriteFails(1) \cup CopyFails ELSE {}) :
        /\ now < MaxClock
        /\ Apply(i, "save_media",
                 [chat_id |-> id[1], message_id |-> id[2], source_path |-> inp[1],
                  mime_type |-> inp[2], io |-> io],
                 save_media(index[i], files, index_file, id[1], id[2], inp[1], inp[2],
                            now, io))

GetMedia(i) ==
    \E id \in Ids :
        Apply(i, "get_media", [chat_id |-> id[1], message_id |-> id[2], io |-> NoFail],
                 get_media_call(index[i], files, index_file, id[1], id[2]))

GetMediaPath(i) ==
    \E id \in Ids :
        Apply(i, "get_media_path", [chat_id |-> id[1], message_id |-> id[2], io |-> NoFail],
                 get_media_path_call(index[i], files, index_file, id[1], id[2]))

ListMedia(i) ==
    \E io \in Faults(IF StaleKeys(index[i], files) # {} THEN WriteFails(1) ELSE {}) :
        Apply(i, "list_media", [io |-> io],
                 list_media(index[i], files, index_file, io))

DeleteMedia(i) ==
    \E id \in Ids :
    \E io \in Faults(LET es == {e \in index[i] : e.key = _get_key(id[1], id[2])}
                     IN  IF es = {} THEN {}
                         ELSE WriteFails(1) \cup RemoveFails(Removable(es, files))) :
        /\ Apply(i, "delete_media",
                 [chat_id |-> id[1], message_id |-> id[2], io |-> io],
                 delete_media(index[i], files, index_file, id[1], id[2], io))

ClearAllMedia(i) ==
    \E io \in Faults(WriteFails(1) \cup RemoveFails(Removable(index[i], files))) :
        /\ Apply(i, "clear_all_media", [io |-> io],
                 clear_all_media(index[i], files, index_file, io))

GetStorageStats(i) ==
    \E io \in Faults(IF StaleKeys(index[i], files) # {} THEN WriteFails(1) ELSE {}) :
        /\ Apply(i, "get_storage_stats", [io |-> io],
                 get_storage_stats(index[i], files, index_file, io))

\* the tool telegram_download_media, on the instance of media_tools.py
DownloadMedia ==
    \E id \in Ids, msg \in Messages, file_path \in {None} :
    \E io \in Faults(IF msg.media = "none" THEN {}
                     ELSE WriteFails(1) \cup CopyFails \cup DownloadFails) :
        /\ now < MaxClock
        /\ Apply("tools", "telegram_download_media",
                 [chat_id |-> id[1], message_id |-> id[2], file_path |-> file_path,
                  msg |-> msg, io |-> io],
                 telegram_download_media(index["tools"], files, index_file, id[1], id[2],
                                         file_path, msg, now, io))

\* the tool telegram_list_downloaded_media
ListDownloadedMedia ==
    \E io \in Faults(IF StaleKeys(index["tools"], files) # {} THEN WriteFails(1) ELSE {}) :
        /\ Apply("tools", "telegram_list_downloaded_media", [io |-> io],
                 telegram_list_downloaded_media(index["tools"], files, index_file, io))

\* the tool telegram_clear_downloaded_media, called as one of calls
ClearDownloaded(calls) ==
    \E call \in calls,
       io \in Faults(WriteFails(2) \cup RemoveFails(Removable(index["tools"], files))) :
        /\ Apply("tools", "telegram_clear_downloaded_media",
                 [chat_id |-> call.chat_id, message_id |-> call.message_id, io |-> io],
                 telegram_clear_downloaded_media(index["tools"], files, index_file,
                                                 call.chat_id, call.message_id,
                                                 call.order, io))

ClearDownloadedMedia == ClearDownloaded(ClearCalls)

\* a client reads the resource tgfile://{chat_id}/{message_id}; main.py serves it
\* from its own instance
ReadResource ==
    \E a \in Addresses :
        Apply("main", "get_telegram_media",
                 [chat_id |-> a[1], message_id |-> a[2], io |-> NoFail],
                 read_resource(index["main"], files, index_file, a[1], a[2]))

\* a file of the base directory is deleted out-of-band
ExternalRemove ==
    \E p \in DOMAIN files :
        /\ p[1] = base_dir[1]
        /\ files' = RemoveFile(files, p)
        /\ Done("tools", "external_remove", [path |-> p], <<>>, "none", 0)
        /\ UNCHANGED <<index, index_file, now>>

\* the server process is started again: main.py line 27 and media_tools.py line 28
\* each construct a MediaStorage, which loads the index file
Restart ==
    /\ index' = [i \in Instances |-> _load_index(index_file)]
    /\ Done("main", "restart", <<>>, <<>>, "none", 0)
    /\ UNCHANGED <<files, index_file, now>>

\* a MediaStorage is constructed again on the same base directory
Reopen(i) ==
    Apply(i, "reopen", [io |-> NoFail], __init__(index[i], files, index_file))

\* the index file is overwritten out-of-band, with text that is not JSON or with
\* bytes that are not UTF-8
ExternalCorrupt ==
    \E f \in {Corrupt, Undecodable} :
        /\ now < MaxClock
        /\ index_file.state = "ok"
        /\ index_file' = f
        /\ now' = now + 1
        /\ Done("tools", "external_corrupt", [state |-> f.state], <<>>, "none", 0)
        /\ UNCHANGED <<index, files>>

\* The MediaStorage class: its methods called on one instance (the one of the
\* tools module, the only one the program calls mutating methods on).
Next ==
    \/ SaveMedia("tools")
    \/ GetMedia("tools")
    \/ GetMediaPath("tools")
    \/ ListMedia("tools")
    \/ DeleteMedia("tools")
    \/ ClearAllMedia("tools")
    \/ GetStorageStats("tools")
    \/ ExternalRemove
    \/ ExternalCorrupt
    \/ Reopen("tools")

Spec == Init /\ [][Next]_vars

\* The server process: the tools and the resource handler, each on the instance
\* of its module.
NextServer ==
    \/ DownloadMedia
    \/ ListDownloadedMedia
    \/ ClearDownloadedMedia
    \/ ReadResource
    \/ ExternalRemove
    \/ Restart

SpecServer == Init /\ [][NextServer]_vars

\* the store and the disk after telegram_download_media stored the photos of
\* the messages ids, one after the other, the last of them at time -1
RECURSIVE Downloaded(_)
Downloaded(ids) ==
    IF ids = {}
    THEN Result({}, (SrcJpg :> <<1, 2, 3>>) @@ (SrcBare :> <<9>>), Absent, <<>>, "none", 0)
    ELSE LET id == CHOOSE x \in ids : \A y \in ids : x[2] >= y[2] /\ (x[2] = y[2] => x[1] >= y[1])
             r  == Downloaded(ids \ {id})
         IN  telegram_download_media(r.index, r.files, r.index_file, id[1], id[2],
                                     None, Photo, 0 - Cardinality(ids), NoFail)

\* The clearing scenario: a server whose tools have downloaded the photos of
\* some of ClearIds, on which media are then cleared and files disappear.
InitClear ==
    \E d \in {Downloaded(ids) : ids \in SUBSET ClearIds} :
        /\ index = [i \in Instances |-> IF i = "tools" THEN d.index ELSE {}]
        /\ files = d.files
        /\ index_file = d.index_file
        /\ now = 0
        /\ pending = NoCalls
        /\ proc = Launched
        /\ last = [op |-> "init", inst |-> "main", arg |-> <<>>,
                   pre |-> [keys |-> {}, stale |-> {}],
                   ret |-> <<>>, err |-> "none", writes |-> 0]

NextClear ==
    \/ ClearDownloaded(ClearCallsOf(ClearIds))
    \/ DeleteMedia("tools")
    \/ ClearAllMedia("tools")
    \/ ExternalRemove

SpecClear == InitClear /\ [][NextClear]_vars

\* a source whose suffix mimetypes does not know
SrcOdd == <<"s", "/", "c", ".", "z", "z">>

\* the MIME types save_media is handed: none, those of its table, one outside it
SaveMimes ==
    {None, <<"image/jpeg">>, <<"image/png">>, <<"image/gif">>, <<"image/webp">>,
     <<"video/mp4">>, <<"audio/mpeg">>, <<"audio/ogg">>, <<"application/pdf">>,
     <<"text/plain">>}

\* an empty store beside three source files
InitSave ==
    /\ index = [i \in Instances |-> _load_index(Absent)]
    /\ index_file = Absent
    /\ files = (SrcJpg :> <<1, 2, 3>>) @@ (SrcBare :> <<9>>) @@ (SrcOdd :> <<7, 7>>)
    /\ now = 0
    /\ pending = NoCalls
    /\ proc = Launched
    /\ last = [op |-> "init", inst |-> "main", arg |-> <<>>,
               pre |-> [keys |-> {}, stale |-> {}],
               ret |-> <<>>, err |-> "none", writes |-> 0]

\* save_media(100, 5, source_path, mime_type) for every source and MIME type
SaveAs ==
    \E src \in {SrcJpg, SrcBare, SrcOdd}, mime \in SaveMimes :
        /\ now < MaxClock
        /\ Apply("tools", "save_media",
                 [chat_id |-> 100, message_id |-> 5, source_path |-> src,
                  mime_type |-> mime, io |-> NoFail],
                 save_media(index["tools"], files, index_file, 100, 5, src, mime,
                            now, NoFail))

\* The resolution of MIME type and extension, on every input of save_media.
SpecSave == InitSave /\ [][SaveAs]_vars

\* the instance that is not i
Other(i) == CHOOSE j \in Instances : j # i

\* save_media, lines 88-118, by instance i: the source is there, the MIME type
\* and the extension are resolved and shutil.copy2 writes the destination.  The
\* call races when the other instance is inside a save_media of the same key.
SaveCopy(i) ==
    \E id \in Ids, inp \in {x \in SaveInputs : exists(files, x[1])} :
        LET mime      == ResolveMime(inp[1], inp[2])
            extension == ResolveExtension(inp[1], mime)
            dest_path == _get_file_path(id[1], id[2], extension)
            j         == Other(i)
            races     == pending[j] # Idle /\ pending[j].chat_id = id[1]
                         /\ pending[j].message_id = id[2]
        IN  /\ pending[i] = Idle
            /\ now + Cardinality({k \in Instances : pending[k] # Idle}) < MaxClock
            /\ files' = WriteFile(files, dest_path, files[inp[1]])
            /\ pending' = [k \in Instances |->
                              IF k = i
                              THEN [stage |-> "copied", chat_id |-> id[1],
                                    message_id |-> id[2], source_path |-> inp[1],
                                    mime_type |-> inp[2], mime |-> mime,
                                    extension |-> extension, dest_path |-> dest_path,
                                    raced |-> races]
                              ELSE IF races THEN [pending[j] EXCEPT !.raced = TRUE]
                              ELSE pending[k]]
            /\ last' = [op |-> "save_media.copy2", inst |-> i,
                        arg |-> [chat_id |-> id[1], message_id |-> id[2]],
                        pre |-> Pre(i), ret |-> <<>>, err |-> "none", writes |-> 0]
            /\ UNCHANGED <<index, index_file, now, proc>>

\* save_media, lines 121-131, by instance i: dest_path.stat().st_size, then the
\* entry is put into the instance's own dict
SaveRecord(i) ==
    LET c   == pending[i]
        key == _get_key(c.chat_id, c.message_id)
    IN  /\ pending[i] # Idle
        /\ pending[i].stage = "copied"
        /\ IF exists(files, c.dest_path)
           THEN /\ index' = [index EXCEPT ![i] =
                                DictSet(index[i], key,
                                        [path |-> c.dest_path, mime_type |-> c.mime,
                                         timestamp |-> now,
                                         size |-> Len(files[c.dest_path]),
                                         extension |-> c.extension])]
                /\ pending' = [pending EXCEPT ![i].stage = "recorded"]
                /\ last' = [op |-> "save_media.index", inst |-> i,
                            arg |-> [chat_id |-> c.chat_id, message_id |-> c.message_id],
                            pre |-> Pre(i), ret |-> <<>>, err |-> "none", writes |-> 0]
           ELSE /\ index' = index
                /\ pending' = [pending EXCEPT ![i] = Idle]
                /\ last' = [op |-> "save_media", inst |-> i,
                            arg |-> [chat_id |-> c.chat_id, message_id |-> c.message_id,
                                     source_path |-> c.source_path,
                                     mime_type |-> c.mime_type, io |-> NoFail,
                                     raced |-> c.raced],
                            pre |-> Pre(i), ret |-> None, err |-> "FileNotFoundError",
                            writes |-> 0]
        /\ UNCHANGED <<files, index_file, now, proc>>

\* the number of characters of json.dumps(idx, indent=2): "{}" for the empty
\* dict, else one block per entry; a timestamp is the 26 characters of
\* datetime.isoformat()
RECURSIVE JsonLen(_)
JsonLen(idx) ==
    IF idx = {} THEN 2
    ELSE LET e == CHOOSE x \in idx : TRUE
             n == Len(e.key) + Len(e.val.path) + Len(e.val.mime_type[1])
                  + Len(str(e.val.size)) + Len(e.val.extension) + 129
         IN  IF idx = {e} THEN 4 + n ELSE n + 2 + JsonLen(idx \ {e})

\* the index file after a writer whose handle is at offset 0 wrote the text of
\* idx: the text replaces the head of what the file holds, and what the file
\* holds beyond it stays (text written by another handle since this one
\* truncated the file), which json.load rejects as extra data
WriteAtStart(idxfile, idx) ==
    IF idxfile.state = "ok" /\ JsonLen(idxfile.content) > JsonLen(idx)
    THEN Corrupt
    ELSE [state |-> "ok", content |-> idx]

\* save_media, line 133, by instance i: _save_index opens the index file with
\* mode 'w', which empties it
SaveOpen(i) ==
    LET c == pending[i]
    IN  /\ pending[i] # Idle
        /\ pending[i].stage = "recorded"
        /\ index_file' = Corrupt
        /\ pending' = [pending EXCEPT ![i].stage = "opened"]
        /\ last' = [op |-> "save_media.open", inst |-> i,
                    arg |-> [chat_id |-> c.chat_id, message_id |-> c.message_id],
                    pre |-> Pre(i), ret |-> <<>>, err |-> "none", writes |-> 0]
        /\ UNCHANGED <<index, files, now, proc>>

\* save_media, lines 133-136, by instance i: json.dump and the close of the file
\* write the text of the instance's dict, and the call returns the destination
SaveWrite(i) ==
    LET c == pending[i]
    IN  /\ pending[i] # Idle
        /\ pending[i].stage = "opened"
        /\ index_file' = WriteAtStart(index_file, index[i])
        /\ pending' = [pending EXCEPT ![i] = Idle]
        /\ now' = now + 1
        /\ last' = [op |-> "save_media", inst |-> i,
                    arg |-> [chat_id |-> c.chat_id, message_id |-> c.message_id,
                             source_path |-> c.source_path, mime_type |-> c.mime_type,
                             io |-> NoFail, raced |-> c.raced],
                    pre |-> Pre(i), ret |-> c.dest_path, err |-> "none", writes |-> 1]
        /\ UNCHANGED <<index, files, proc>>

\* Two writers: the two MediaStorage instances on the one base directory, each
\* in its own thread of control, whose save_media calls interleave at the
\* system calls.
NextRace ==
    \E i \in Instances : SaveCopy(i) \/ SaveRecord(i) \/ SaveOpen(i) \/ SaveWrite(i)

SpecRace == Init /\ [][NextRace]_vars

\* Two stores on one base directory (two processes, each with its instance),
\* whose calls do not overlap.
NextTwo ==
    \/ \E i \in Instances : SaveMedia(i)
    \/ \E i \in Instances : DeleteMedia(i)
    \/ \E i \in Instances : ListMedia(i)
    \/ \E i \in Instances : ClearAllMedia(i)
    \/ ExternalRemove

SpecTwo == Init /\ [][NextTwo]_vars

\* a file_path argument of telegram_download_media, outside the base directory
OutFile == <<"o", "/", "f">>

\* the tool telegram_download_media, called with and without a file_path
DownloadMediaTo ==
    \E id \in Ids, msg \in Messages, file_path \in {None, OutFile} :
    \E io \in Faults(IF msg.media = "none" THEN {} ELSE DownloadFails) :
        /\ now < MaxClock
        /\ Apply("tools", "telegram_download_media",
                 [chat_id |-> id[1], message_id |-> id[2], file_path |-> file_path,
                  msg |-> msg, io |-> io],
                 telegram_download_media(index["tools"], files, index_file, id[1], id[2],
                                         file_path, msg, now, io))

\* The download tool on both of its branches, and the files of the store
\* disappearing.
NextDownload ==
    \/ DownloadMediaTo
    \/ ExternalRemove

SpecDownload == Init /\ [][NextDownload]_vars

\* the signals a process handles in a run
MaxSignals == 2

\* a step of main(): the store and the calls in progress are as they were
MainStep(op, arg, p) ==
    /\ proc' = p
    /\ last' = [op |-> op, inst |-> "main", arg |-> arg, pre |-> Pre("main"),
                ret |-> <<>>, err |-> "none", writes |-> 0]
    /\ UNCHANGED <<index, files, index_file, now, pending>>

\* signal_handler (main.py 208-213) runs for SIGINT or SIGTERM.  The function
\* has no global statement, so "_shutdown_requested = True" binds a local of the
\* handler and the module's flag keeps its value; _shutdown_event is only read,
\* so the event of the module is set.
signal_handler ==
    \E sig \in {"SIGINT", "SIGTERM"} :
        /\ proc.pc # "exited"
        /\ Len(proc.signals) < MaxSignals
        /\ MainStep("signal_handler", [sig |-> sig],
                    [proc EXCEPT !.event = TRUE,
                                 !.signals = Append(@, sig),
                                 !.early = @ \/ proc.pc = "client.start"])

\* await client.start() returns (221), or raises (229)
ClientStart ==
    /\ proc.pc = "client.start"
    /\ \E ok \in BOOLEAN :
        MainStep("client.start", [ok |-> ok],
                 IF ok THEN [proc EXCEPT !.pc = "check", !.connected = TRUE]
                 ELSE [proc EXCEPT !.pc = "cleanup"])

\* lines 223-230: if _shutdown_requested: cleanup and return (and the finally
\* block); else mcp.run_stdio_async() is called
CheckShutdown ==
    /\ proc.pc = "check"
    /\ MainStep("check", <<>>,
                IF proc.requested THEN [proc EXCEPT !.pc = "cleanup"]
                ELSE [proc EXCEPT !.pc = "serving", !.served = TRUE])

\* the MCP server serves the calls of its clients
Serve ==
    /\ proc.pc = "serving"
    /\ (DownloadMedia \/ ReadResource)

\* mcp.run_stdio_async() returns or raises: the finally block is next
ServerEnds ==
    /\ proc.pc = "serving"
    /\ MainStep("run_stdio_async", <<>>, [proc EXCEPT !.pc = "cleanup"])

\* cleanup() (189-197) disconnects the client; sys.exit(0)
cleanup ==
    /\ proc.pc = "cleanup"
    /\ MainStep("cleanup", <<>>, [proc EXCEPT !.pc = "exited", !.connected = FALSE])

\* The run of main.py.
NextMain ==
    \/ signal_handler
    \/ ClientStart
    \/ CheckShutdown
    \/ Serve
    \/ ServerEnds
    \/ cleanup

SpecMain == Init /\ [][NextMain]_vars

(***************************************************************************)
(* Properties.                                                             *)
(***************************************************************************)
\* the five fields save_media writes
Fields(r) == [f \in {"path", "mime_type", "timestamp", "size", "extension"} |-> r[f]]

\* the (chat_id, message_id) a key stands for, by the parse list_media applies
KeyIds(key) == <<int(split(key, "|")[1]).val, int(split(key, "|")[2]).val>>

\* sub occurs in s as a contiguous run
Contains(s, sub) ==
    \E i \in 0..(Len(s) - Len(sub)) : SubSeq(s, i + 1, i + Len(sub)) = sub

\* the bytes a client gets back from a base64 blob
RECURSIVE b64decode(_)
b64decode(c) ==
    IF Len(c) < 4 THEN <<>>
    ELSE LET pad == Cardinality({i \in 3..4 : c[i] = 64})
             v   == c[1] * 262144 + c[2] * 4096
                    + (IF c[3] = 64 THEN 0 ELSE c[3]) * 64
                    + (IF c[4] = 64 THEN 0 ELSE c[4])
             b   == <<v \div 65536, (v \div 256) % 256, v % 256>>
         IN  SubSeq(b, 1, 3 - pad) \o b64decode(SubSeq(c, 5, Len(c)))

\* C1 (round trip): after a save_media that returned normally with a supplied
\* mime_type, get_media on the same key returns a record with that mime_type
\* whose path holds exactly the bytes of the source file.
C1_RoundTrip ==
    (last.op = "save_media" /\ last.err = "none" /\ last.arg.mime_type # None) =>
        LET got == get_media(index[last.inst], last.arg.chat_id, last.arg.message_id)
        IN  /\ got # {}
            /\ \A r \in got :
                /\ r.mime_type = last.arg.mime_type
                /\ exists(files, r.path)
                /\ files[r.path] = files[last.arg.source_path]

\* a save with a supplied MIME type that differs from the one the source's
\* extension suggests has returned
C1_Witness ==
    /\ last.op = "save_media" /\ last.err = "none"
    /\ last.arg.mime_type # None
    /\ guess_type(last.arg.source_path) \notin {None, last.arg.mime_type}

\* C2 (overwrite): every index, in memory and on disk, holds at most one entry
\* per key and per (chat_id, message_id); after a save_media that returned
\* normally, the entry of its key carries the path, MIME type, size and
\* extension of that save, also when the key was in the index before.
C2_Overwrite ==
    /\ \A idx \in {index[i] : i \in Instances} \cup {index_file.content} :
        \A e1, e2 \in idx :
            (e1.key = e2.key \/ KeyIds(e1.key) = KeyIds(e2.key)) => e1 = e2
    /\ (last.op = "save_media" /\ last.err = "none") =>
        LET key == _get_key(last.arg.chat_id, last.arg.message_id)
            es  == {e \in index[last.inst] : e.key = key}
        IN  /\ Cardinality(es) = 1
            /\ \A e \in es :
                /\ e.val.path = last.ret
                /\ e.val.mime_type = IF last.arg.mime_type # None THEN last.arg.mime_type
                                     ELSE guess_type(last.arg.source_path)
                /\ e.val.size = Len(files[last.arg.source_path])
                /\ e.val.extension = suffix(last.ret)
                /\ e.val.timestamp = now - 1

\* a save under a key that was in the index returned, after an earlier save
\* under that key had stored a file with another extension
C2_Witness ==
    /\ last.op = "save_media" /\ last.err = "none"
    /\ _get_key(last.arg.chat_id, last.arg.message_id) \in last.pre.keys
    /\ \E ext \in {<<".", "j", "p", "g">>} :
        /\ ext # suffix(last.ret)
        /\ exists(files, _get_file_path(last.arg.chat_id, last.arg.message_id, ext))

\* C3 (one store per process): right after telegram_download_media saved the
\* attachment of (chat_id, message_id), the resource handler resolves
\* tgfile://{chat_id}/{message_id} to that attachment's bytes and MIME type, and
\* the instance it reads is in the state of the instance the tool wrote.
C3_SharedStore ==
    (last.op = "telegram_download_media" /\ last.ret.ok) =>
        LET r == get_telegram_media(index["main"], files,
                                    str(last.arg.chat_id), str(last.arg.message_id))
        IN  /\ r.ok
            /\ b64decode(r.blob) = last.arg.msg.bytes
            /\ r.mimeType = last.ret.mime_type
            /\ index["main"] = index["tools"]

\* C4 (missing source): a save_media whose source_path does not exist raises
\* FileNotFoundError and changes neither the index in memory, nor the index
\* file, nor any file.
C4_MissingSource ==
    [][(last'.op = "save_media" /\ ~exists(files, last'.arg.source_path)) =>
          /\ last'.err = "FileNotFoundError"
          /\ index' = index
          /\ index_file' = index_file
          /\ files' = files]_vars

\* save_media was refused for a missing source on a store that holds a record
C4_Witness ==
    /\ last.op = "save_media" /\ last.err = "FileNotFoundError"
    /\ index[last.inst] # {}
    /\ index_file.state = "ok"

\* C5 (delete idempotence): delete_media on a key absent from the index returns
\* false and changes nothing; on a present key it returns true unless the index
\* write fails, the key is gone from the index, and a second delete_media on the
\* key returns false.
C5_DeleteIdempotent ==
    [][last'.op = "delete_media" =>
          LET i   == last'.inst
              c   == last'.arg.chat_id
              m   == last'.arg.message_id
              key == _get_key(c, m)
          IN  IF key \notin Keys(index[i])
              THEN /\ last'.ret = FALSE /\ last'.err = "none"
                   /\ index' = index /\ index_file' = index_file /\ files' = files
              ELSE /\ last'.err = "none" => last'.ret = TRUE
                   /\ last'.arg.io = NoFail => last'.err = "none"
                   /\ key \notin Keys(index'[i])
                   /\ LET again == delete_media(index'[i], files', index_file', c, m, NoFail)
                      IN  /\ again.ret = FALSE /\ again.err = "none"
                          /\ again.index = index'[i]
                          /\ again.index_file = index_file'
                          /\ again.files = files']_vars

\* delete_media returned true and removed the file of the record
C5_Witness ==
    /\ last.op = "delete_media" /\ last.err = "none" /\ last.ret = TRUE
    /\ _get_key(last.arg.chat_id, last.arg.message_id) \notin last.pre.stale

\* C6 (clear-all count): clear_all_media empties the index in every case; when
\* it returns normally and no os.remove fails, it returns N - M for an index of
\* N records of which M had no file (0 for an empty index), the persisted index
\* is empty and no file of a record is left.
C6_ClearAllCount ==
    [][last'.op = "clear_all_media" =>
          LET i == last'.inst
              N == Cardinality(index[i])
              M == Cardinality(StaleKeys(index[i], files))
          IN  /\ index'[i] = {}
              /\ last'.arg.io = NoFail => last'.err = "none"
              /\ (last'.err = "none" /\ last'.arg.io.rmfail = {}) =>
                    /\ last'.ret = N - M
                    /\ index_file' = [state |-> "ok", content |-> {}]
                    /\ \A e \in index[i] : ~exists(files', e.val.path)]_vars

\* clear_all_media returned 1 for two records of which one had lost its file
C6_Witness ==
    /\ last.op = "clear_all_media" /\ last.err = "none"
    /\ Cardinality(last.pre.keys) = 2
    /\ Cardinality(last.pre.stale) = 1
    /\ last.ret = 1

\* the sum of the size fields of index entries
RECURSIVE SumEntrySizes(_)
SumEntrySizes(es) ==
    IF es = {} THEN 0
    ELSE LET e == CHOOSE x \in es : TRUE IN e.val.size + SumEntrySizes(es \ {e})

\* C7 (stats consistency): in every reachable state get_storage_stats reports as
\* total_files the number of records list_media returns in that state and as
\* total_size_bytes the sum of their sizes; these are the index entries whose
\* file exists, so a record whose file is missing is counted in neither.
C7_StatsConsistent ==
    \A i \in Instances :
        LET st      == get_storage_stats(index[i], files, index_file, NoFail)
            listed  == list_media(index[i], files, index_file, NoFail)
            present == {e \in index[i] : exists(files, e.val.path)}
        IN  /\ st.err = "none" /\ listed.err = "none"
            /\ st.ret.total_files = Cardinality(listed.ret)
            /\ st.ret.total_size_bytes = SumSizes(listed.ret)
            /\ st.ret.total_files = Cardinality(present)
            /\ st.ret.total_size_bytes = SumEntrySizes(present)

\* get_storage_stats ran on an index with a record that had lost its file and
\* one that had not
C7_Witness ==
    /\ last.op = "get_storage_stats" /\ last.err = "none"
    /\ last.pre.stale # {}
    /\ last.pre.stale # last.pre.keys
    /\ last.ret.total_files = 1
    /\ last.ret.total_size_bytes > 0

\* C8 (list_media reconciles): list_media returns exactly the records whose
\* file exists, removes the others from the index in memory in the same call,
\* and writes the index file exactly once when there is at least one such
\* record (however many there are) and not at all when there is none.
C8_ListReconciles ==
    [][last'.op = "list_media" =>
          LET i     == last'.inst
              valid == {e \in index[i] : exists(files, e.val.path)}
              stale == index[i] \ valid
          IN  /\ Keys(index'[i]) = Keys(valid)
              /\ \A e \in index'[i] : Fields(e.val) = Fields(Get(index[i], e.key))
              /\ last'.writes = IF stale = {} THEN 0 ELSE 1
              /\ stale = {} => (index_file' = index_file /\ last'.err = "none")
              /\ last'.arg.io = NoFail => last'.err = "none"
              /\ last'.err = "none" =>
                    /\ {_get_key(r.chat_id, r.message_id) : r \in last'.ret} = Keys(valid)
                    /\ Cardinality(last'.ret) = Cardinality(valid)
                    /\ \A r \in last'.ret :
                          Fields(r) = Fields(Get(index[i], _get_key(r.chat_id, r.message_id)))
                    /\ stale # {} =>
                          /\ index_file'.state = "ok"
                          /\ Keys(index_file'.content) = Keys(valid)
              /\ files' = files]_vars

\* list_media found two records without a file and wrote the index file once
C8_Witness ==
    /\ last.op = "list_media" /\ last.err = "none"
    /\ Cardinality(last.pre.stale) = 2
    /\ last.writes = 1
    /\ index[last.inst] = {}

\* C9 as claimed (stale pruning is deferred): after a list_media call that found
\* a record whose file was deleted out-of-band, get_media on its key still
\* returns the metadata of the index.
C9_StalePruningDeferred ==
    (last.op = "list_media" /\ last.err = "none") =>
        \A id \in Ids :
            _get_key(id[1], id[2]) \in last.pre.stale =>
                get_media(index[last.inst], id[1], id[2]) # {}

\* C9 as amended: while a record's file is missing and no list_media has run,
\* get_media returns its metadata and get_media_path reports absence; the first
\* list_media call afterwards leaves the record out of its result and removes
\* the entry from the index, so that get_media and get_media_path both report
\* absence after it.
C9_StalePruning ==
    /\ \A i \in Instances, id \in Ids :
        _get_key(id[1], id[2]) \in StaleKeys(index[i], files) =>
            /\ get_media(index[i], id[1], id[2]) # {}
            /\ get_media_path(index[i], files, id[1], id[2]) = {}
    /\ last.op = "list_media" =>
        \A id \in Ids :
            _get_key(id[1], id[2]) \in last.pre.stale =>
                /\ get_media(index[last.inst], id[1], id[2]) = {}
                /\ get_media_path(index[last.inst], files, id[1], id[2]) = {}
                /\ \A r \in last.ret : <<r.chat_id, r.message_id>> # id

\* list_media dropped one record whose file was gone and returned another
C9_Witness ==
    /\ last.op = "list_media" /\ last.err = "none"
    /\ Cardinality(last.pre.stale) = 1
    /\ last.ret # {}

\* C10 (resolve failure): a read of tgfile://{chat_id}/{message_id} whose key the
\* store does not know, or whose file is missing, never returns content and
\* fails with a message that names chat_id/message_id and tells the caller to
\* download the media first.
C10_ResolveNotFound ==
    (/\ last.op = "get_telegram_media"
     /\ int(last.arg.chat_id).ok /\ int(last.arg.message_id).ok
     /\ LET path == get_media_path(index["main"], files,
                                   int(last.arg.chat_id).val, int(last.arg.message_id).val)
        IN  path = {}) =>
        /\ ~last.ret.ok
        /\ last.ret.blob = <<>>
        /\ Contains(last.ret.error, last.arg.chat_id \o <<"/">> \o last.arg.message_id)
        /\ Contains(last.ret.error, <<". Download it first.">>)

\* C11 (resolving has no effect): in every reachable state a read of any
\* tgfile:// address, whether it succeeds or fails, leaves the index of the
\* handler's store, the index file and every file as they are and writes
\* nothing; the read just made has returned content only from a file that
\* already existed.
C11_ResolveFrame ==
    /\ \A a \in Addresses :
        LET r == read_resource(index["main"], files, index_file, a[1], a[2])
        IN  /\ r.index = index["main"]
            /\ r.files = files
            /\ r.index_file = index_file
            /\ r.writes = 0
    /\ last.op = "get_telegram_media" => last.writes = 0

\* a read succeeded, and the read of another address of the same store fails
C11_Witness ==
    /\ last.op = "get_telegram_media" /\ last.ret.ok
    /\ \E a \in Addresses :
        ~read_resource(index["main"], files, index_file, a[1], a[2]).ret.ok

\* C12 (no dangling path): in every reachable state get_media_path returns the
\* path of the record exactly when the key is in the index and the file exists,
\* reports absence otherwise, and leaves index, index file and files unchanged.
C12_NoDanglingPath ==
    \A i \in Instances, id \in Ids :
        LET r   == get_media_path_call(index[i], files, index_file, id[1], id[2])
            key == _get_key(id[1], id[2])
            es  == {e \in index[i] : e.key = key /\ exists(files, e.val.path)}
        IN  /\ r.ret = {e.val.path : e \in es}
            /\ \A p \in r.ret : exists(files, p)
            /\ r.err = "none"
            /\ r.index = index[i] /\ r.files = files /\ r.index_file = index_file

\* get_media_path reported absence for a key that is in the index
C12_Witness ==
    /\ last.op = "get_media_path" /\ last.ret = {}
    /\ _get_key(last.arg.chat_id, last.arg.message_id) \in last.pre.stale
    /\ _get_key(last.arg.chat_id, last.arg.message_id) \in Keys(index[last.inst])

\* C13 (pure lookup): in every reachable state get_media returns the record the
\* index holds under the key, also when the file of the record is missing,
\* reports absence for a key that is not in the index, and leaves index, index
\* file and files unchanged.
C13_PureLookup ==
    \A i \in Instances, id \in Ids :
        LET r   == get_media_call(index[i], files, index_file, id[1], id[2])
            key == _get_key(id[1], id[2])
        IN  /\ r.ret = {e.val : e \in {x \in index[i] : x.key = key}}
            /\ key \in StaleKeys(index[i], files) => r.ret # {}
            /\ key \notin Keys(index[i]) => r.ret = {}
            /\ r.err = "none"
            /\ r.index = index[i] /\ r.files = files /\ r.index_file = index_file

\* get_media returned the record of a key whose file is missing
C13_Witness ==
    /\ last.op = "get_media" /\ last.ret # {}
    /\ _get_key(last.arg.chat_id, last.arg.message_id) \in last.pre.stale
    /\ \A r \in last.ret : ~exists(files, r.path)

\* C14 (temporary file): no temporary download file outlives the call of
\* telegram_download_media that created it: none exists in any reachable state,
\* whether the call saved the media, save_media raised, or the download raised.
C14_TempFileRemoved ==
    /\ \A msg \in Messages : ~exists(files, TempPath(DownloadSuffix(msg)))
    /\ \A p \in DOMAIN files : SubSeq(p, 1, 2) # SubSeq(TempPath(<<>>), 1, 2)

\* telegram_download_media created the temporary file and downloaded into it,
\* and save_media then raised because the index could not be written
C14_Witness ==
    /\ last.op = "telegram_download_media"
    /\ last.arg.msg.media # "none"
    /\ last.arg.io.download = "ok"
    /\ last.arg.io.wfail = 1
    /\ last.ret = ToolError
    /\ last.writes = 1

\* C15 (initialization): constructing a MediaStorage never raises because of
\* the index file: with an absent index file, and with one that cannot be read
\* or parsed, the instance starts with an empty index, and no file is touched.
C15_InitNeverFails ==
    last.op = "reopen" =>
        /\ last.err = "none"
        /\ index_file.state # "ok" => index[last.inst] = {}
        /\ index_file.state = "ok" => index[last.inst] = index_file.content

\* the operations of MediaStorage that may write the index file
Mutating == {"save_media", "delete_media", "clear_all_media", "list_media",
             "get_storage_stats"}

\* C16 (write failure reaches the caller): an operation of MediaStorage in which
\* a write of the index file failed (save_media, delete_media, clear_all_media,
\* a list_media that prunes) has raised the IOError and not returned normally.
C16_WriteFailureRaises ==
    (/\ last.op \in Mutating
     /\ last.arg.io.wfail # 0
     /\ last.writes >= last.arg.io.wfail) =>
        last.err = "IOError"

\* a list_media that had a stale entry to prune could not write the index file
C16_Witness ==
    /\ last.op = "list_media"
    /\ last.pre.stale # {}
    /\ last.arg.io.wfail = 1
    /\ last.writes = 1
    /\ last.err = "IOError"

\* C17 (crash tolerance): whatever point a mutating operation stops at, also
\* part-way through the write of the index file, a MediaStorage constructed
\* afterwards on the directory loads the index as it was before the operation
\* (in memory or on disk) or as the operation leaves it, and does not raise
\* (for an index file that could be loaded before the operation).
C17_CrashTolerant ==
    [][(last'.op \in Mutating /\ LoadError(index_file) = "none") =>
          LET loaded == __init__({}, files', index_file')
          IN  /\ loaded.err = "none"
              /\ \/ loaded.index = _load_index(index_file)
                 \/ loaded.index = index[last'.inst]
                 \/ loaded.index = index'[last'.inst]]_vars

\* C18 (durability): after a save_media, a delete_media that deleted, or a
\* clear_all_media has returned normally, a MediaStorage constructed on the
\* directory holds exactly the index of the instance that ran the operation,
\* keys and fields of every record.
C18_Durable ==
    (/\ last.op \in {"save_media", "delete_media", "clear_all_media"}
     /\ last.err = "none"
     /\ last.op = "delete_media" => last.ret = TRUE) =>
        LET loaded == __init__({}, files, index_file)
        IN  /\ loaded.err = "none"
            /\ loaded.index = index[last.inst]
            /\ index_file.state = "ok"

\* a save_media returned on an instance that held a record list_media had added
\* chat_id and message_id to
C18_Witness ==
    /\ last.op = "save_media" /\ last.err = "none"
    /\ Cardinality(index[last.inst]) = 2
    /\ \E e \in index[last.inst] : "chat_id" \in DOMAIN e.val

\* C20 (deterministic path): the path of every index entry, in memory and on
\* disk, is base_dir/chat{chat_id}_msg{message_id}{extension} with the chat_id
\* and message_id of the entry's key and the entry's extension field, so that
\* entries of different keys have different paths.
C20_DeterministicPath ==
    \A idx \in {index[i] : i \in Instances} \cup {index_file.content} :
        /\ \A e \in idx :
            e.val.path = base_dir \o <<"/", "c", "h", "a", "t">> \o str(KeyIds(e.key)[1])
                         \o <<"_", "m", "s", "g">> \o str(KeyIds(e.key)[2])
                         \o e.val.extension
        /\ \A e1, e2 \in idx :
            (e1.val.path = e2.val.path /\ e1.val.extension = e2.val.extension)
                => e1.key = e2.key

\* save_media stored a second record, from a source whose name has no suffix
C20_Witness ==
    /\ last.op = "save_media" /\ last.err = "none"
    /\ last.arg.source_path = SrcBare
    /\ Cardinality(index[last.inst]) = 2
    /\ now = MaxClock

\* the keys the operation just run found in the index with their file in place
Live == last.pre.keys \ last.pre.stale

\* the persisted index is the one the tools' instance holds
Persisted == index_file = [state |-> "ok", content |-> index["tools"]]

\* C19 (best-effort removal): when os.remove fails for files of the index, a
\* delete_media of a key in the index still removes and persists the entry and
\* returns true; clear_all_media and the clearing tool (one key, one chat,
\* everything) still go through all their entries, count them, and leave the
\* index updated and persisted; the files that could not be removed stay.
C19_BestEffortRemoval ==
    (/\ last.op \in {"delete_media", "clear_all_media", "telegram_clear_downloaded_media"}
     /\ last.arg.io.rmfail # {}) =>
        LET idx    == index["tools"]
            rmfail == last.arg.io.rmfail
        IN  /\ \A p \in rmfail : exists(files, p)
            /\ last.op = "delete_media" =>
                LET key == _get_key(last.arg.chat_id, last.arg.message_id)
                IN  key \in last.pre.keys =>
                        /\ last.err = "none" /\ last.ret = TRUE
                        /\ Keys(idx) = last.pre.keys \ {key}
                        /\ Persisted
            /\ last.op = "clear_all_media" =>
                /\ last.err = "none"
                /\ last.ret = Cardinality(Live) - Cardinality(rmfail)
                /\ idx = {} /\ Persisted
            /\ last.op = "telegram_clear_downloaded_media" =>
                /\ last.ret # ToolError
                /\ (last.arg.chat_id # {} /\ last.arg.message_id # {}) =>
                    \A c \in last.arg.chat_id, m \in last.arg.message_id :
                        _get_key(c, m) \in last.pre.keys =>
                            /\ last.ret.ok
                            /\ Keys(idx) = last.pre.keys \ {_get_key(c, m)}
                            /\ Persisted
                /\ (last.arg.chat_id # {} /\ last.arg.message_id = {}) =>
                    /\ last.ret.ok
                    /\ last.ret.count =
                          Cardinality({k \in Live : KeyIds(k)[1] \in last.arg.chat_id})
                    /\ Keys(idx) = {k \in Live : KeyIds(k)[1] \notin last.arg.chat_id}
                    /\ last.writes > 0 => Persisted
                /\ last.arg.chat_id = {} =>
                    /\ last.ret.ok
                    /\ last.ret.count = Cardinality(Live) - Cardinality(rmfail)
                    /\ idx = {} /\ Persisted

\* the tool cleared the two media of chat 1 although the file of one of them
\* could not be removed, and left the media of the other chat
C19_Witness ==
    /\ last.op = "telegram_clear_downloaded_media"
    /\ last.arg.chat_id = {1} /\ last.arg.message_id = {}
    /\ Cardinality(last.arg.io.rmfail) = 1
    /\ \A p \in last.arg.io.rmfail : Contains(p, <<"c", "h", "a", "t", "1", "_">>)
    /\ last.ret.ok /\ last.ret.count = 2
    /\ Cardinality(index["tools"]) = 1

\* the fixed table of extensions by MIME type, as pairs
ExtensionTable ==
    { << <<"image/jpeg">>, <<".", "j", "p", "g">> >>,
      << <<"image/png">>, <<".", "p", "n", "g">> >>,
      << <<"image/gif">>, <<".", "g", "i", "f">> >>,
      << <<"image/webp">>, <<".", "w", "e", "b", "p">> >>,
      << <<"video/mp4">>, <<".", "m", "p", "4">> >>,
      << <<"audio/mpeg">>, <<".", "m", "p", "3">> >>,
      << <<"audio/ogg">>, <<".", "o", "g", "g">> >>,
      << <<"application/pdf">>, <<".", "p", "d", "f">> >> }

\* C21 (MIME and extension resolution): the record a save_media leaves has the
\* supplied mime_type, else the one inferred from the source's extension, else
\* application/octet-stream; its extension is the source's own suffix when it
\* has one, else the table's value for that MIME type, else .bin; its file is
\* chat<chat_id>_msg<message_id><extension>.  A 3-byte .jpg source saved for
\* (100, 5) without a MIME type gives image/jpeg, .jpg, size 3, chat100_msg5.jpg.
C21_Resolution ==
    (last.op = "save_media" /\ last.err = "none") =>
        LET a == last.arg
            r == Get(index[last.inst], _get_key(a.chat_id, a.message_id))
        IN  /\ a.mime_type # None => r.mime_type = a.mime_type
            /\ (a.mime_type = None /\ guess_type(a.source_path) # None) =>
                    r.mime_type = guess_type(a.source_path)
            /\ (a.mime_type = None /\ guess_type(a.source_path) = None) =>
                    r.mime_type = <<"application/octet-stream">>
            /\ suffix(a.source_path) # <<>> => r.extension = suffix(a.source_path)
            /\ suffix(a.source_path) = <<>> =>
                    /\ \A t \in ExtensionTable : r.mime_type = t[1] => r.extension = t[2]
                    /\ (\A t \in ExtensionTable : r.mime_type # t[1]) =>
                            r.extension = <<".", "b", "i", "n">>
            /\ basename(r.path) = <<"c", "h", "a", "t">> \o str(a.chat_id)
                                  \o <<"_", "m", "s", "g">> \o str(a.message_id)
                                  \o r.extension
            /\ (a.chat_id = 100 /\ a.message_id = 5 /\ a.source_path = SrcJpg
                /\ a.mime_type = None) =>
                    /\ r.mime_type = <<"image/jpeg">>
                    /\ r.extension = <<".", "j", "p", "g">>
                    /\ r.size = 3
                    /\ basename(r.path) = <<"c", "h", "a", "t", "1", "0", "0", "_", "m", "s",
                                            "g", "5", ".", "j", "p", "g">>

\* the 3-byte .jpg source was saved for (100, 5) without a MIME type
C21_Witness ==
    /\ last.op = "save_media" /\ last.err = "none"
    /\ last.arg.chat_id = 100 /\ last.arg.message_id = 5
    /\ last.arg.source_path = SrcJpg /\ last.arg.mime_type = None
    /\ Has(index["tools"], _get_key(100, 5))
    /\ Get(index["tools"], _get_key(100, 5)).size = 3

\* the outcomes of clearing one chat of the store as it is, when every system
\* call succeeds: [chat, pre-state keys of the chat, result]
ClearChatOutcomes ==
    { [chat |-> id[1],
       r    |-> telegram_clear_downloaded_media(index["tools"], files, index_file,
                                                {id[1]}, {}, o, NoFail)] :
        id \in ClearIds, o \in OrdersOf(ClearIds) }

\* the keys of the tools' index that belong, or do not belong, to a chat
KeysOfChat(keys, chat) == {k \in keys : KeyIds(k)[1] = chat}

\* the files the records of the other chats point at are as they were
OtherFilesKept(chat, fs2) ==
    \A e \in index["tools"] :
        (KeyIds(e.key)[1] # chat /\ exists(files, e.val.path)) =>
            /\ exists(fs2, e.val.path)
            /\ fs2[e.val.path] = files[e.val.path]

\* C22 as stated (clear by chat): clearing one chat removes every record of
\* that chat and no record of another chat, leaves the files of the other chats
\* untouched and returns the number of records of that chat it removed.
C22_ClearByChat ==
    \A oc \in ClearChatOutcomes :
        LET keys == Keys(index["tools"])
        IN  /\ oc.r.ret # ToolError /\ oc.r.ret.ok
            /\ Keys(oc.r.index) = keys \ KeysOfChat(keys, oc.chat)
            /\ OtherFilesKept(oc.chat, oc.r.files)
            /\ oc.r.ret.count = Cardinality(KeysOfChat(keys, oc.chat))

\* C22 (clear by chat, as the code does it): the call first lists the store,
\* which drops the records whose file is missing whatever their chat; it then
\* removes every remaining record of the chat and no other, leaves the files of
\* the other chats untouched, and returns the number of records of the chat
\* whose file was there.
C22_ClearByChatLive ==
    \A oc \in ClearChatOutcomes :
        LET keys == Keys(index["tools"])
            live == keys \ StaleKeys(index["tools"], files)
        IN  /\ oc.r.ret # ToolError /\ oc.r.ret.ok
            /\ Keys(oc.r.index) = live \ KeysOfChat(live, oc.chat)
            /\ \A k \in Keys(oc.r.index) :
                    Fields(Get(oc.r.index, k)) = Fields(Get(index["tools"], k))
            /\ OtherFilesKept(oc.chat, oc.r.files)
            /\ \A e \in index["tools"] :
                    KeyIds(e.key)[1] = oc.chat => ~exists(oc.r.files, e.val.path)
            /\ oc.r.ret.count = Cardinality(KeysOfChat(live, oc.chat))
            /\ oc.r.writes > 0 => oc.r.index_file = [state |-> "ok", content |-> oc.r.index]

\* chat 1 was cleared when one of its two records had lost its file and chat 12
\* had a record: the count is 1 and the record of chat 12 is the one left
C22_Witness ==
    /\ last.op = "telegram_clear_downloaded_media"
    /\ last.arg.chat_id = {1} /\ last.arg.message_id = {}
    /\ last.arg.io = NoFail
    /\ Cardinality(last.pre.keys) = 3 /\ Cardinality(last.pre.stale) = 1
    /\ last.pre.stale \subseteq KeysOfChat(last.pre.keys, 1)
    /\ last.ret.ok /\ last.ret.count = 1
    /\ Keys(index["tools"]) = {_get_key(12, 3)}
    /\ exists(files, Get(index["tools"], _get_key(12, 3)).path)

\* C23 (racing writers): when the save_media calls of two instances on the same
\* key overlap, each returns without an exception, and when one of them has
\* written the index file the persisted entry of the key is the entry of that
\* writer (the one it holds in memory and whose path it returned).  It fails
\* when the writer that writes last opened the file before the other wrote a
\* longer text: the file then ends with the tail of the other's text.
C23_LastWriterWins ==
    (last.op = "save_media" /\ last.arg.raced) =>
        LET key == _get_key(last.arg.chat_id, last.arg.message_id)
        IN  /\ last.err = "none"
            /\ index_file.state = "ok"
            /\ Has(index_file.content, key)
            /\ Get(index_file.content, key) = Get(index[last.inst], key)
            /\ Get(index_file.content, key).path = last.ret
            /\ Get(index_file.content, key).mime_type =
                  ResolveMime(last.arg.source_path, last.arg.mime_type)

\* what the mutating calls of instance i would leave in the index file, were
\* the instance's dict idx: save_media and delete_media of every key,
\* clear_all_media and list_media, when every system call succeeds
Mutations(idx) ==
    [save   |-> [id \in Ids |->
                    save_media(idx, files, index_file, id[1], id[2], SrcJpg, None, now,
                               NoFail).index_file],
     delete |-> [id \in Ids |->
                    delete_media(idx, files, index_file, id[1], id[2], NoFail).index_file],
     clear  |-> clear_all_media(idx, files, index_file, NoFail).index_file,
     list   |-> list_media(idx, files, index_file, NoFail).index_file]

\* C24 (read in full, write in full): a mutating call of either instance leaves
\* the index file as the same call would on an instance that has just read the
\* index file, so a mutation starts from the index on disk.
C24_ReadBeforeWrite ==
    \A i \in Instances : Mutations(index[i]) = Mutations(_load_index(index_file))

\* C28 (no lost update): a record in the persisted index stays in it through a
\* save_media or delete_media of a different key by either instance.
C28_NoLostUpdate ==
    index_file.state = "ok" =>
        \A i \in Instances, id \in Ids :
            \A e \in index_file.content :
                e.key # _get_key(id[1], id[2]) =>
                    /\ e \in Mutations(index[i]).save[id].content
                    /\ e \in Mutations(index[i]).delete[id].content

\* the files of the base directory that no entry of idx points at
Orphans(idx, fs) ==
    {p \in DOMAIN fs : p[1] = base_dir[1] /\ \A e \in idx : e.val.path # p}

\* C25 (orphaned file): a save_media that returns normally under a key whose
\* entry has another extension leaves the file of the old entry as it was, with
\* no entry of the index pointing at it; and a file of the base directory that
\* no entry points at is still there after delete_media of any key, after
\* clear_all_media and after list_media.
C25_OrphanKept ==
    LET idx == index["tools"]
    IN  /\ \A id \in Ids, inp \in SaveInputs :
            LET key == _get_key(id[1], id[2])
                r   == save_media(idx, files, index_file, id[1], id[2], inp[1], inp[2],
                                  now, NoFail)
            IN  (/\ Has(idx, key) /\ exists(files, Get(idx, key).path)
                 /\ r.err = "none"
                 /\ Get(r.index, key).extension # Get(idx, key).extension) =>
                    /\ Get(idx, key).path \in Orphans(r.index, r.files)
                    /\ r.files[Get(idx, key).path] = files[Get(idx, key).path]
        /\ \A p \in Orphans(idx, files) :
            /\ \A id \in Ids :
                    exists(delete_media(idx, files, index_file, id[1], id[2], NoFail).files, p)
            /\ exists(clear_all_media(idx, files, index_file, NoFail).files, p)
            /\ exists(list_media(idx, files, index_file, NoFail).files, p)

\* (1, 23) was saved again with another extension; the file of the first save
\* is still there and the index points at the new one only
C25_Witness ==
    LET key == _get_key(1, 23)
    IN  /\ last.op = "save_media" /\ last.err = "none"
        /\ last.arg.chat_id = 1 /\ last.arg.message_id = 23
        /\ key \in last.pre.keys
        /\ Get(index["tools"], key).extension = <<".", "p", "n", "g">>
        /\ _get_file_path(1, 23, <<".", "j", "p", "g">>) \in Orphans(index["tools"], files)
        /\ files[_get_file_path(1, 23, <<".", "j", "p", "g">>)] = <<1, 2, 3>>

\* the key has a record that a successful save left: the same in memory and in
\* the index file, with its file holding as many bytes as it records
SavedEarlier(key) ==
    /\ Has(index["tools"], key)
    /\ index_file.state = "ok"
    /\ Has(index_file.content, key)
    /\ Get(index_file.content, key) = Get(index["tools"], key)
    /\ exists(files, Get(index["tools"], key).path)
    /\ Len(files[Get(index["tools"], key).path]) = Get(index["tools"], key).size

\* C26 (a failed save never happened): when save_media raises because the copy
\* or the index write failed, an earlier record of the key keeps its fields in
\* memory and in the index file, and its file keeps its bytes.
C26_FailedSaveNoEffect ==
    \A id \in Ids, inp \in {x \in SaveInputs : exists(files, x[1])},
       io \in WriteFails(1) \cup CopyFails :
        LET key == _get_key(id[1], id[2])
            old == Get(index["tools"], key)
            r   == save_media(index["tools"], files, index_file, id[1], id[2],
                              inp[1], inp[2], now, io)
        IN  (SavedEarlier(key) /\ r.err # "none") =>
                /\ Has(r.index, key) /\ Get(r.index, key) = old
                /\ r.index_file.state = "ok"
                /\ Has(r.index_file.content, key)
                /\ Get(r.index_file.content, key) = old
                /\ exists(r.files, old.path)
                /\ r.files[old.path] = files[old.path]

\* the call with outcome r returned normally and left the dict and the index
\* file with the same keys and the same records
Agree(r) == r.err = "none" => r.index_file = [state |-> "ok", content |-> r.index]

\* the call with outcome r left the records whose file exists as they were
LiveKept(r) == \A e \in index["tools"] : exists(files, e.val.path) => e \in r.index

\* C27 (memory and file agree): on an instance whose dict is what the index file
\* holds, every call that returns normally leaves the dict and the index file
\* with the same keys and the same records, and list_media and
\* get_storage_stats leave the records whose file exists as they were.
C27_IndexMatchesFile ==
    (index_file.state = "ok" /\ index_file.content = index["tools"]) =>
        LET idx == index["tools"]
        IN  /\ Agree(list_media(idx, files, index_file, NoFail))
            /\ Agree(get_storage_stats(idx, files, index_file, NoFail))
            /\ Agree(clear_all_media(idx, files, index_file, NoFail))
            /\ \A id \in Ids :
                /\ Agree(get_media_call(idx, files, index_file, id[1], id[2]))
                /\ Agree(get_media_path_call(idx, files, index_file, id[1], id[2]))
                /\ Agree(delete_media(idx, files, index_file, id[1], id[2], NoFail))
                /\ \A inp \in SaveInputs :
                    Agree(save_media(idx, files, index_file, id[1], id[2], inp[1],
                                     inp[2], now, NoFail))
            /\ LiveKept(list_media(idx, files, index_file, NoFail))
            /\ LiveKept(get_storage_stats(idx, files, index_file, NoFail))

\* C29 (resolvable URI): when telegram_download_media has returned a payload
\* with ok true, which carries the resource_uri of (chat_id, message_id), the
\* store of the tool has an entry for that key whose file exists.
C29_UriResolvable ==
    (last.op = "telegram_download_media" /\ last.ret.ok) =>
        LET key == _get_key(last.arg.chat_id, last.arg.message_id)
        IN  /\ Has(index["tools"], key)
            /\ exists(files, Get(index["tools"], key).path)

\* C30 (shutdown before start): when SIGINT or SIGTERM was handled while
\* client.start() was in progress, main does not call mcp.run_stdio_async: once
\* client.start() has returned it is cleaning up or has exited, the server
\* never started.
C30_ShutdownBeforeStart ==
    proc.early =>
        /\ ~proc.served
        /\ proc.pc \in {"client.start", "check", "cleanup", "exited"}

=============================================================================
